---- MODULE Spec2Model ----
(***************************************************************************)
(* A model of the iMessageAnalyzer extraction-and-aggregation pipeline     *)
(* (src/script.py) and of the dedup-by-name save of its results            *)
(* (src/app.py).                                                           *)
(*                                                                         *)
(* Python str values are modelled as sequences of one-character strings,   *)
(* so that re.sub, str.lower, str.split, slicing and string comparison     *)
(* are computed character by character.  Python None is the value None.    *)
(***************************************************************************)
EXTENDS Integers, Sequences, FiniteSets, TLC

VARIABLES
    \* ---- normalize_phone_number applied to an identifier, then to its own output
    phone,          \* the raw identifier handed to normalize_phone_number
    normalized,     \* normalize_phone_number(phone)
    renormalized,   \* normalize_phone_number(normalized)
    npc,            \* "input" | "once" | "twice"
    \* ---- get_contacts
    contacts,       \* the rows fetched from ABPerson / ABMultiValue, in scan order
    contact_dict,   \* key -> [name, image_data]
    ci,             \* number of rows the loop has processed
    \* ---- analyze_single_group_chat
    messages,            \* the rows fetched for the chat, ORDER BY m.date ASC
    participant_stats,   \* dict in insertion order: <<[sender, message_count, tapbacks_sent, tapbacks_received], ...>>
    message_to_sender,   \* cleaned guid -> sender
    chat_pc,             \* "pass1" | "pass2" | "compile" | "done" | "raised"
    mi,                  \* rows the current pass has processed
    participant_details, \* the returned list
    \* ---- on_analyze_click: get_all_conversations, then save_results_to_local_db
    conversations,       \* the rows of analyze_imessage_data, one per handle.id
    all_conversations,   \* the list of summary dicts (built, returned sorted, merged into by the save)
    conv_pc,             \* "compile" | "returned" | "saved" | "raised"
    gi,                  \* rows get_all_conversations has processed
    contact_data,        \* dict in insertion order: <<[name, ref], ...>>, ref the position in
                         \* all_conversations of the dict object stored under name
    si,                  \* summaries the merge loop of the save has processed
    stored,              \* the committed rows of the conversations table of the local database
    \* ---- name cleaning: clean_contact_name, and the cleaning done by the save
    name_pieces,         \* the pieces the display name is made of, joined by one space each
    display_name,        \* the display name handed to the cleaning
    returned_name,       \* clean_contact_name(display_name), None before the call
    saved_name,          \* the contact_name the save computes from display_name, None before
    \* ---- get_file_paths, then copy_relevant_files on its result
    manifest_exists,     \* os.path.exists(manifest_path)
    manifest_tables,     \* the tables of the manifest index: <<[name, rows], ...>>
    backup_files,        \* the content files present under the backup root: {[dir, file], ...}
    conn_open,           \* the connection of get_file_paths is open
    found_table,         \* the table name the probing has settled on, NoTable before
    ti,                  \* table names probed
    file_paths,          \* the returned dict: <<[key |-> relativePath, value |-> fileID], ...>>
    extract_pc,          \* "start" | "probe" | "no_table" | "select" | "returned" | "raised"
                         \* | "copied" | "copy_raised"
    error,               \* the exception raised, NoError when none
    fi,                  \* items of file_paths the copy loop has processed
    copied_files,        \* the list copy_relevant_files builds
    output_files,        \* the files written under output_dir: name -> fileID of the content
    files_read,          \* the content files the copy has read
    \* ---- analyze_group_chats_basic
    all_data,            \* the fetched rows, ORDER BY c.ROWID, m.date
    group_chats,         \* dict in insertion order, one entry per chat_id
    bdi,                 \* rows of all_data processed
    formatted_group_chats, \* the list built from group_chats.values()
    fci,                 \* entries of group_chats formatted
    basic_pc             \* "rows" | "format" | "returned" | "raised"

normVars == <<phone, normalized, renormalized, npc>>
contactVars == <<contacts, contact_dict, ci>>
chatVars == <<messages, participant_stats, message_to_sender, chat_pc, mi, participant_details>>
pipeVars == <<conversations, all_conversations, conv_pc, gi, contact_data, si, stored>>
cleanVars == <<name_pieces, display_name, returned_name, saved_name>>
extractVars == <<manifest_exists, manifest_tables, backup_files, conn_open, found_table, ti,
                 file_paths, extract_pc, error, fi, copied_files, output_files, files_read>>
basicVars == <<all_data, group_chats, bdi, formatted_group_chats, fci, basic_pc>>
vars == <<normVars, contactVars, chatVars, pipeVars, cleanVars, extractVars, basicVars>>

(***************************************************************************)
(* Values.                                                                 *)
(***************************************************************************)
\* Python None.  It is a one-element tuple whose element is no character,
\* so it differs from every str.
None == << "<None>" >>

\* the literal "Unknown" (src/script.py:109, 152, 456)
Unknown == << "U", "n", "k", "n", "o", "w", "n" >>

Digits == {"0", "1", "2", "3", "4", "5", "6", "7", "8", "9"}

\* str.lower() on one character (ASCII letters; every other character is kept)
UpperToLower ==
    [A |-> "a", B |-> "b", C |-> "c", D |-> "d", E |-> "e", F |-> "f", G |-> "g",
     H |-> "h", I |-> "i", J |-> "j", K |-> "k", L |-> "l", M |-> "m", N |-> "n",
     O |-> "o", P |-> "p", Q |-> "q", R |-> "r", S |-> "s", T |-> "t", U |-> "u",
     V |-> "v", W |-> "w", X |-> "x", Y |-> "y", Z |-> "z"]

lower_char(c) == IF c \in DOMAIN UpperToLower THEN UpperToLower[c] ELSE c

\* str.lower()
lower(s) == [i \in 1..Len(s) |-> lower_char(s[i])]

\* 'c' in s
contains(s, c) == \E i \in 1..Len(s) : s[i] = c

\* re.sub(r'\D', '', s): every non-digit character removed
IsDigit(c) == c \in Digits
re_sub_nondigits(s) == SelectSeq(s, IsDigit)

(***************************************************************************)
(* normalize_phone_number (src/script.py:107-116).  There is no branch for *)
(* an identifier that contains '@': every str takes the digit path.        *)
(***************************************************************************)
normalize_drop_any_leading_one(p) ==
    IF p = None THEN Unknown
    ELSE LET digits == re_sub_nondigits(p)
         IN  IF Len(digits) > 0 /\ digits[1] = "1" THEN Tail(digits) ELSE digits

normalize_phone_number(p) ==
    IF p = None THEN Unknown
    ELSE LET digits == re_sub_nondigits(p)
         IN  IF Len(digits) = 11 /\ digits[1] = "1" THEN Tail(digits) ELSE digits


(***************************************************************************)
(* Name cleaning and the contact lookup.                                   *)
(***************************************************************************)
Space == " "
NoneWord == << "N", "o", "n", "e" >>

\* f"{x}": None prints as the word None
fstr(x) == IF x = None THEN NoneWord ELSE x

\* str.strip(): leading and trailing whitespace removed
RECURSIVE lstrip(_)
lstrip(s) == IF s # <<>> /\ Head(s) = Space THEN lstrip(Tail(s)) ELSE s

RECURSIVE rstrip(_)
rstrip(s) ==
    IF s # <<>> /\ s[Len(s)] = Space THEN rstrip(SubSeq(s, 1, Len(s) - 1)) ELSE s

strip(s) == rstrip(lstrip(s))

\* bool(x) for an optional blob or str: None and the empty value are false
truthy(x) == x # None /\ x # <<>>

\* src/script.py:150-152
full_name_of(first, last) ==
    LET full_name == strip(fstr(first) \o <<Space>> \o fstr(last))
    IN  IF full_name = <<>> THEN Unknown ELSE full_name

\* src/script.py:154-157
contact_key(value) ==
    IF contains(value, "@") THEN lower(value) ELSE normalize_phone_number(value)

\* one iteration of the loop of get_contacts (src/script.py:149-163)
contact_step_last_wins(dict, row) ==
    LET key == contact_key(row.value)
        entry == [name |-> full_name_of(row.first, row.last), image_data |-> row.image_data]
    IN  IF key \notin DOMAIN dict \/ truthy(row.image_data)
        THEN [k \in DOMAIN dict \cup {key} |-> IF k = key THEN entry ELSE dict[k]]
        ELSE dict

contact_step(dict, row) ==
    LET key == contact_key(row.value)
        entry == [name |-> full_name_of(row.first, row.last), image_data |-> row.image_data]
    IN  IF key \notin DOMAIN dict \/ (truthy(row.image_data) /\ ~truthy(dict[key].image_data))
        THEN [k \in DOMAIN dict \cup {key} |-> IF k = key THEN entry ELSE dict[k]]
        ELSE dict

\* get_contacts on fetched rows: the whole loop (src/script.py:148-165)
RECURSIVE get_contacts_from(_, _)
get_contacts_from(dict, rows) ==
    IF rows = <<>> THEN dict ELSE get_contacts_from(contact_step(dict, Head(rows)), Tail(rows))

EmptyDict == [k \in {} |-> None]

get_contacts(rows) == get_contacts_from(EmptyDict, rows)

(***************************************************************************)
(* clean_contact_name (src/script.py:167-169).                             *)
(***************************************************************************)
\* str.split(): the maximal runs of non-whitespace characters
RECURSIVE split_acc(_, _, _)
split_acc(s, cur, out) ==
    IF s = <<>> THEN (IF cur = <<>> THEN out ELSE Append(out, cur))
    ELSE IF Head(s) = Space
         THEN split_acc(Tail(s), <<>>, IF cur = <<>> THEN out ELSE Append(out, cur))
         ELSE split_acc(Tail(s), Append(cur, Head(s)), out)

split(s) == split_acc(s, <<>>, <<>>)

\* ' '.join(parts)
RECURSIVE join(_)
join(parts) ==
    IF parts = <<>> THEN <<>>
    ELSE IF Len(parts) = 1 THEN parts[1]
    ELSE parts[1] \o <<Space>> \o join(Tail(parts))

\* a variant that compares without lower()
not_none_word_case_sensitive(part) == part # lower(NoneWord)

NotNoneWord(part) == lower(part) # lower(NoneWord)

\* [part for part in parts if part.lower() != 'none']
without_none(parts) == SelectSeq(parts, NotNoneWord)

clean_contact_name(name) == join(without_none(split(name)))

(***************************************************************************)
(* analyze_single_group_chat (src/script.py:253-353).                      *)
(*                                                                         *)
(* A nullable integer column is <<>> for NULL and <<v>> for the value v.   *)
(***************************************************************************)
Null == <<>>

\* `if x:` on a nullable integer: NULL and 0 are false
truthy_int(x) == x # Null /\ x[1] # 0

user == << "u", "s", "e", "r" >>
unknown == << "u", "n", "k", "n", "o", "w", "n" >>
You == << "Y", "o", "u" >>
UnknownParticipant ==
    << "U", "n", "k", "n", "o", "w", "n", " ",
       "P", "a", "r", "t", "i", "c", "i", "p", "a", "n", "t" >>

\* TAPBACK_MAPPING (src/script.py:253-261); the labels by their words
TapbackCodes == {0, 2000, 2001, 2002, 2003, 2004, 3003}
TAPBACK_MAPPING ==
    [t \in TapbackCodes |->
        CASE t = 0 -> "No Tapback"
          [] t = 2000 -> "Heart"
          [] t = 2001 -> "Thumbs Up"
          [] t = 2002 -> "Thumbs Down"
          [] t = 2003 -> "Laugh"
          [] t = 2004 -> "!! Exclamation"
          [] t = 3003 -> "Question"]

\* TAPBACK_MAPPING.get(t, f"Unknown ({t})"): a label is the pair of its
\* text and, for the synthesized one, the code printed inside it
tapback_label(t) ==
    IF t \in TapbackCodes THEN <<TAPBACK_MAPPING[t], -1>> ELSE <<"Unknown (t)", t>>

\* the index of the last '/' of s, 0 when there is none
last_slash(s) ==
    IF contains(s, "/")
    THEN CHOOSE i \in 1..Len(s) : s[i] = "/" /\ \A j \in (i + 1)..Len(s) : s[j] # "/"
    ELSE 0

\* clean_guid (src/script.py:263-266)
clean_guid(guid) ==
    IF truthy(guid) /\ contains(guid, "/")
    THEN SubSeq(guid, last_slash(guid) + 1, Len(guid))
    ELSE guid

\* sender = 'user' if is_from_me else (sender_id or 'unknown')
sender_of(row) ==
    IF row.is_from_me # 0 THEN user
    ELSE IF truthy(row.sender_id) THEN row.sender_id ELSE unknown

EmptyCount == [t \in {} |-> 0]

\* the defaultdict's factory (src/script.py:296-300)
default_stats(s) ==
    [sender |-> s, message_count |-> 0,
     tapbacks_sent |-> EmptyCount, tapbacks_received |-> EmptyCount]

has_participant(stats, s) == \E i \in 1..Len(stats) : stats[i].sender = s

\* participant_stats[s]: a missing key is inserted, at the end
touch(stats, s) == IF has_participant(stats, s) THEN stats ELSE Append(stats, default_stats(s))

\* defaultdict(int)[t] += 1
incremented(counts, t) ==
    [k \in DOMAIN counts \cup {t} |->
        IF k = t THEN (IF t \in DOMAIN counts THEN counts[t] ELSE 0) + 1 ELSE counts[k]]

\* a variant that enters the sender without counting the message
add_message_not_counted(stats, s) == touch(stats, s)

add_message(stats, s) ==
    LET st == touch(stats, s)
    IN  [i \in 1..Len(st) |->
            IF st[i].sender = s
            THEN [st[i] EXCEPT !.message_count = @ + 1] ELSE st[i]]

add_sent(stats, s, t) ==
    LET st == touch(stats, s)
    IN  [i \in 1..Len(st) |->
            IF st[i].sender = s
            THEN [st[i] EXCEPT !.tapbacks_sent = incremented(@, t)] ELSE st[i]]

add_received(stats, s, t) ==
    LET st == touch(stats, s)
    IN  [i \in 1..Len(st) |->
            IF st[i].sender = s
            THEN [st[i] EXCEPT !.tapbacks_received = incremented(@, t)] ELSE st[i]]

\* message_to_sender[g] = s
assigned(map, g, s) == [k \in DOMAIN map \cup {g} |-> IF k = g THEN s ELSE map[k]]

\* a variant that indexes the GUID as it is stored
pass1_step_raw_guid(stats, map, row) ==
    [stats |-> add_message(stats, sender_of(row)),
     map |-> assigned(map, row.guid, sender_of(row))]

\* one iteration of the first pass (src/script.py:304-309)
pass1_step(stats, map, row) ==
    [stats |-> add_message(stats, sender_of(row)),
     map |-> assigned(map, clean_guid(row.guid), sender_of(row))]

\* a variant that raises KeyError on a missing original message
pass2_step_subscript(stats, map, msgs, i) ==
    LET row == msgs[i]
        t == row.associated_message_type
        g == clean_guid(row.associated_message_guid)
    IN  IF ~truthy_int(t) THEN [stats |-> stats, raised |-> FALSE]
        ELSE IF g \in DOMAIN map
             THEN [stats |-> add_received(add_sent(stats, sender_of(row), t[1]), map[g], t[1]),
                   raised |-> FALSE]
             ELSE [stats |-> add_sent(stats, sender_of(row), t[1]), raised |-> TRUE]

\* a variant that credits the reactor instead of the original sender
pass2_step_credit_reactor(stats, map, msgs, i) ==
    LET row == msgs[i]
        t == row.associated_message_type
        g == clean_guid(row.associated_message_guid)
    IN  IF ~truthy_int(t) THEN [stats |-> stats, raised |-> FALSE]
        ELSE [stats |-> IF g \in DOMAIN map
                        THEN add_received(add_sent(stats, sender_of(row), t[1]), sender_of(row), t[1])
                        ELSE add_sent(stats, sender_of(row), t[1]),
              raised |-> FALSE]

\* a variant whose lookup sees only the messages up to the reaction itself,
\* as when both passes are merged into one loop
pass2_step_single_pass(stats, map, msgs, i) ==
    LET row == msgs[i]
        t == row.associated_message_type
        g == clean_guid(row.associated_message_guid)
        seen == {clean_guid(msgs[j].guid) : j \in 1..i}
    IN  IF ~truthy_int(t) THEN [stats |-> stats, raised |-> FALSE]
        ELSE [stats |-> IF g \in DOMAIN map /\ g \in seen
                        THEN add_received(add_sent(stats, sender_of(row), t[1]), map[g], t[1])
                        ELSE add_sent(stats, sender_of(row), t[1]),
              raised |-> FALSE]

\* a variant that takes every non-null type code for a reaction
pass2_step_zero_is_reaction(stats, map, msgs, i) ==
    LET row == msgs[i]
        t == row.associated_message_type
        g == clean_guid(row.associated_message_guid)
    IN  IF t = Null THEN [stats |-> stats, raised |-> FALSE]
        ELSE [stats |-> IF g \in DOMAIN map
                        THEN add_received(add_sent(stats, sender_of(row), t[1]), map[g], t[1])
                        ELSE add_sent(stats, sender_of(row), t[1]),
              raised |-> FALSE]

\* a variant that counts a reaction with no original message as received
\* by its own sender
pass2_step_dangling_to_self(stats, map, msgs, i) ==
    LET row == msgs[i]
        t == row.associated_message_type
        g == clean_guid(row.associated_message_guid)
    IN  IF ~truthy_int(t) THEN [stats |-> stats, raised |-> FALSE]
        ELSE [stats |-> add_received(add_sent(stats, sender_of(row), t[1]),
                                     IF g \in DOMAIN map THEN map[g] ELSE sender_of(row), t[1]),
              raised |-> FALSE]

\* one iteration of the second pass, on row i (src/script.py:312-325);
\* raised tells whether the iteration raised (it never does: the lookup is
\* guarded by `in`, and a miss only logs a warning)
pass2_step(stats, map, msgs, i) ==
    LET row == msgs[i]
        t == row.associated_message_type
        g == clean_guid(row.associated_message_guid)
    IN  IF ~truthy_int(t) THEN [stats |-> stats, raised |-> FALSE]
        ELSE [stats |-> IF g \in DOMAIN map
                        THEN add_received(add_sent(stats, sender_of(row), t[1]), map[g], t[1])
                        ELSE add_sent(stats, sender_of(row), t[1]),
              raised |-> FALSE]

\* sum(counts.values())
RECURSIVE sum_values(_)
sum_values(counts) ==
    IF DOMAIN counts = {} THEN 0
    ELSE LET t == CHOOSE k \in DOMAIN counts : TRUE
         IN  counts[t] + sum_values([k \in DOMAIN counts \ {t} |-> counts[k]])

\* a variant that keeps only the codes of TAPBACK_MAPPING
labelled_known_only(counts) ==
    [l \in {tapback_label(t) : t \in DOMAIN counts \cap TapbackCodes} |->
        counts[CHOOSE t \in DOMAIN counts : tapback_label(t) = l]]

\* {TAPBACK_MAPPING.get(t, f"Unknown ({t})"): c for t, c in counts.items()}
labelled(counts) ==
    [l \in {tapback_label(t) : t \in DOMAIN counts} |->
        counts[CHOOSE t \in DOMAIN counts : tapback_label(t) = l]]

\* the name of one participant (src/script.py:330-338)
participant_name(participant, contact_lookup) ==
    IF participant = user THEN You
    ELSE IF participant = unknown THEN UnknownParticipant
    ELSE LET normalized_participant == normalize_phone_number(participant)
             name == IF normalized_participant \in DOMAIN contact_lookup
                     THEN contact_lookup[normalized_participant].name
                     ELSE participant
             cleaned_name == clean_contact_name(name)
         IN  IF cleaned_name # <<>> THEN cleaned_name ELSE participant

\* one entry of participant_details (src/script.py:340-350)
detail_of(stats_entry, contact_lookup) ==
    [name |-> participant_name(stats_entry.sender, contact_lookup),
     message_count |-> stats_entry.message_count,
     tapbacks_sent |-> labelled(stats_entry.tapbacks_sent),
     tapbacks_received |-> labelled(stats_entry.tapbacks_received),
     total_tapbacks_sent |-> sum_values(stats_entry.tapbacks_sent),
     total_tapbacks_received |-> sum_values(stats_entry.tapbacks_received)]

\* the loop over participant_stats.items() (src/script.py:328-350)
compile_details(stats, contact_lookup) ==
    [i \in 1..Len(stats) |-> detail_of(stats[i], contact_lookup)]

\* the two loops run to completion on msgs (src/script.py:303-325)
RECURSIVE pass1_all(_, _, _, _)
pass1_all(stats, map, msgs, i) ==
    IF i > Len(msgs) THEN [stats |-> stats, map |-> map]
    ELSE LET r == pass1_step(stats, map, msgs[i])
         IN  pass1_all(r.stats, r.map, msgs, i + 1)

RECURSIVE pass2_all(_, _, _, _)
pass2_all(stats, map, msgs, i) ==
    IF i > Len(msgs) THEN stats
    ELSE LET r == pass2_step(stats, map, msgs, i)
         IN  IF r.raised THEN r.stats ELSE pass2_all(r.stats, map, msgs, i + 1)

\* analyze_single_group_chat on fetched rows: the counters and the returned list
analyze_single_group_chat(msgs, contact_lookup) ==
    LET first_pass == pass1_all(<<>>, EmptyDict, msgs, 1)
        stats == pass2_all(first_pass.stats, first_pass.map, msgs, 1)
    IN  [stats |-> stats, details |-> compile_details(stats, contact_lookup)]

(***************************************************************************)
(* Dates (src/script.py:379-386, 463-465).                                 *)
(*                                                                         *)
(* message.date is in nanoseconds since 2001-01-01; the model carries it   *)
(* in whole seconds (date / 1e9), NULL as <<>>.  datetime.fromtimestamp    *)
(* is taken in UTC.                                                        *)
(***************************************************************************)
\* 978307200: 2001-01-01T00:00:00Z in Unix seconds
EPOCH_2001 == 978307200
\* timedelta.days counts whole periods of 86400 seconds
SECONDS_PER_DAY == 86400

\* timestamp / 1e9 + 978307200
unix_seconds(t) == t + EPOCH_2001

\* the calendar date of a day number counted from 1970-01-01
civil_from_days(n) ==
    LET z == n + 719468
        era == z \div 146097
        doe == z - era * 146097
        yoe == (doe - doe \div 1460 + doe \div 36524 - doe \div 146096) \div 365
        doy == doe - (365 * yoe + yoe \div 4 - yoe \div 100)
        mp == (5 * doy + 2) \div 153
        m == IF mp < 10 THEN mp + 3 ELSE mp - 9
    IN  [year |-> yoe + era * 400 + (IF m <= 2 THEN 1 ELSE 0),
         month |-> m,
         day |-> doy - (153 * mp + 2) \div 5 + 1]

MonthNames ==
    << << "J", "a", "n", "u", "a", "r", "y" >>,
       << "F", "e", "b", "r", "u", "a", "r", "y" >>,
       << "M", "a", "r", "c", "h" >>,
       << "A", "p", "r", "i", "l" >>,
       << "M", "a", "y" >>,
       << "J", "u", "n", "e" >>,
       << "J", "u", "l", "y" >>,
       << "A", "u", "g", "u", "s", "t" >>,
       << "S", "e", "p", "t", "e", "m", "b", "e", "r" >>,
       << "O", "c", "t", "o", "b", "e", "r" >>,
       << "N", "o", "v", "e", "m", "b", "e", "r" >>,
       << "D", "e", "c", "e", "m", "b", "e", "r" >> >>

DigitChars == << "0", "1", "2", "3", "4", "5", "6", "7", "8", "9" >>
digit_char(n) == DigitChars[n + 1]

\* %d and %Y: zero-padded decimal
two_digits(n) == << digit_char(n \div 10), digit_char(n % 10) >>
four_digits(n) ==
    << digit_char(n \div 1000), digit_char((n \div 100) % 10),
       digit_char((n \div 10) % 10), digit_char(n % 10) >>

NotAvailable == << "N", "/", "A" >>

\* format_date (src/script.py:379-386): strftime('%B %d, %Y'), "N/A" for None
format_date(timestamp) ==
    IF timestamp = Null THEN NotAvailable
    ELSE LET date == civil_from_days(unix_seconds(timestamp[1]) \div SECONDS_PER_DAY)
         IN  MonthNames[date.month] \o <<Space>> \o two_digits(date.day)
                \o << ",", Space >> \o four_digits(date.year)

\* the characters of the model in code-point order, for str comparison
CodePointOrder ==
    << " ", "(", ")", "+", ",", "-", ".", "/",
       "0", "1", "2", "3", "4", "5", "6", "7", "8", "9", ":", "@",
       "A", "B", "C", "D", "E", "F", "G", "H", "I", "J", "K", "L", "M",
       "N", "O", "P", "Q", "R", "S", "T", "U", "V", "W", "X", "Y", "Z",
       "a", "b", "c", "d", "e", "f", "g", "h", "i", "j", "k", "l", "m",
       "n", "o", "p", "q", "r", "s", "t", "u", "v", "w", "x", "y", "z" >>

ord(c) == CHOOSE i \in 1..Len(CodePointOrder) : CodePointOrder[i] = c

\* a < b on str: lexicographic by code point
RECURSIVE str_less(_, _)
str_less(a, b) ==
    IF b = <<>> THEN FALSE
    ELSE IF a = <<>> THEN TRUE
    ELSE IF Head(a) # Head(b) THEN ord(Head(a)) < ord(Head(b))
    ELSE str_less(Tail(a), Tail(b))

\* min(a, b) and max(a, b) on str
str_min(a, b) == IF str_less(b, a) THEN b ELSE a
str_max(a, b) == IF str_less(a, b) THEN b ELSE a

(***************************************************************************)
(* get_all_conversations (src/script.py:453-485).                          *)
(*                                                                         *)
(* avg_messages_per_day is the exact quotient <<numerator, denominator>>.  *)
(***************************************************************************)
UnknownContact == [name |-> Unknown, image_data |-> None]
NoImages == [sent |-> 0, received |-> 0, total_size |-> 0]

\* dict.get(key, default)
dict_get(dict, key, default) == IF key \in DOMAIN dict THEN dict[key] ELSE default

\* the row raises: datetime.fromtimestamp(None / 1e9 + ...) is a TypeError
row_raises(row) == row.first_message = Null \/ row.last_message = Null

\* (last_date - first_date).days
days_between(first, last) == (unix_seconds(last) - unix_seconds(first)) \div SECONDS_PER_DAY

\* a variant that does not count the first day
avg_messages_per_day_no_plus_one(row) ==
    LET days_diff == days_between(row.first_message[1], row.last_message[1])
        total_messages == row.sent_count + row.received_count
    IN  IF days_diff > 0 THEN <<total_messages, days_diff>> ELSE <<0, 1>>

\* src/script.py:463-467
avg_messages_per_day(row) ==
    LET days_diff == days_between(row.first_message[1], row.last_message[1]) + 1
        total_messages == row.sent_count + row.received_count
    IN  IF days_diff > 0 THEN <<total_messages, days_diff>> ELSE <<0, 1>>

\* the dict appended for one row (src/script.py:455-483)
summary_of(row, contact_lookup, image_stats) ==
    LET contact_info == dict_get(contact_lookup, normalize_phone_number(row.identifier),
                                 UnknownContact)
        conversation_image_stats == dict_get(image_stats, row.identifier, NoImages)
    IN  [contact_name |-> contact_info.name,
         sent_count |-> row.sent_count,
         received_count |-> row.received_count,
         first_message_date |-> format_date(row.first_message),
         last_message_date |-> format_date(row.last_message),
         avg_messages_per_day |-> avg_messages_per_day(row),
         images_sent |-> conversation_image_stats.sent,
         images_received |-> conversation_image_stats.received,
         total_image_size |-> conversation_image_stats.total_size,
         image_data |-> contact_info.image_data]

total_of(conv) == conv.sent_count + conv.received_count

\* sorted(..., key=total, reverse=True): stable, so equal totals keep their order
RECURSIVE insert_desc(_, _)
insert_desc(sorted, conv) ==
    IF sorted = <<>> THEN <<conv>>
    ELSE IF total_of(Head(sorted)) >= total_of(conv)
         THEN <<Head(sorted)>> \o insert_desc(Tail(sorted), conv)
         ELSE <<conv>> \o sorted

\* a variant that returns the list in the order it was built
unsorted(list) == list

RECURSIVE sorted_by_total_desc(_)
sorted_by_total_desc(list) ==
    IF list = <<>> THEN <<>>
    ELSE insert_desc(sorted_by_total_desc(SubSeq(list, 1, Len(list) - 1)), list[Len(list)])

(***************************************************************************)
(* save_results_to_local_db (src/app.py:954-992).                          *)
(***************************************************************************)
\* the cleaning done inline by the save (src/app.py:965-967)
cleaned_or_unknown(name) ==
    LET cleaned_name_parts == without_none(split(name))
    IN  IF cleaned_name_parts # <<>> THEN join(cleaned_name_parts) ELSE Unknown

has_name(data, name) == \E i \in 1..Len(data) : data[i].name = name
ref_of(data, name) == (CHOOSE i \in 1..Len(data) : data[i].name = name)

\* a variant of the else branch that keeps the first record as it is
merged_into_keep_first(kept, conv) == kept

\* the else branch (src/app.py:973-978): sums, and min / max of the date strings
merged_into(kept, conv) ==
    [kept EXCEPT
        !.sent_count = @ + conv.sent_count,
        !.received_count = @ + conv.received_count,
        !.images_sent = @ + conv.images_sent,
        !.images_received = @ + conv.images_received,
        !.total_image_size = @ + conv.total_image_size,
        !.first_message_date = str_min(@, conv.first_message_date),
        !.last_message_date = str_max(@, conv.last_message_date)]

\* one iteration of the merge loop, on element i of the list
\* (src/app.py:963-978).  contact_data[name] is the dict object of the list
\* itself, so the sums are written into the caller's list
merge_step(list, data, i) ==
    LET contact_name == cleaned_or_unknown(list[i].contact_name)
    IN  IF ~has_name(data, contact_name)
        THEN [list |-> [list EXCEPT ![i].contact_name = contact_name],
              data |-> Append(data, [name |-> contact_name, ref |-> i])]
        ELSE LET r == data[ref_of(data, contact_name)].ref
             IN  [list |-> [list EXCEPT ![r] = merged_into(list[r], list[i])],
                  data |-> data]

\* the row REPLACE INTO writes for one entry of contact_data (src/app.py:981-989)
stored_row(name, conv) ==
    [contact_name |-> name,
     sent_count |-> conv.sent_count,
     received_count |-> conv.received_count,
     first_message_date |-> conv.first_message_date,
     last_message_date |-> conv.last_message_date,
     avg_messages_per_day |-> conv.avg_messages_per_day,
     images_sent |-> conv.images_sent,
     images_received |-> conv.images_received,
     total_image_size |-> conv.total_image_size]

(***************************************************************************)
(* get_file_paths and copy_relevant_files (src/script.py:60-105).          *)
(*                                                                         *)
(* The manifest index is the list of its tables in sqlite_master order,    *)
(* each with its rows in fetch order.  Table names and domains are plain   *)
(* strings; logical paths and content identifiers are str values.  A dict  *)
(* is the sequence of its items in insertion order.                        *)
(***************************************************************************)
\* table_names = ['Files', 'files', 'File', 'file']
table_names == << "Files", "files", "File", "file" >>

\* found_table = None
NoTable == "<None>"

\* SELECT name FROM sqlite_master WHERE type='table' AND name='{table}'
table_exists(tables, table) == \E i \in 1..Len(tables) : tables[i].name = table

\* the rows of FROM {found_table}
rows_of(tables, table) == tables[CHOOSE i \in 1..Len(tables) : tables[i].name = table].rows

HomeDomain == "HomeDomain"

IsHomeRow(row) == row.domain = HomeDomain

\* a variant of the query without its WHERE clause
home_rows_any_domain(rows) == rows

\* WHERE domain='HomeDomain'
home_rows(rows) == SelectSeq(rows, IsHomeRow)

has_key(items, k) == \E i \in 1..Len(items) : items[i].key = k

\* d[k] = v: a new key goes last, a known key keeps its place
dict_put(items, k, v) ==
    IF has_key(items, k)
    THEN [i \in 1..Len(items) |-> IF items[i].key = k THEN [key |-> k, value |-> v] ELSE items[i]]
    ELSE Append(items, [key |-> k, value |-> v])

\* {relativePath: fileID for fileID, relativePath in files if relativePath}
RECURSIVE path_dict(_, _)
path_dict(items, files) ==
    IF files = <<>> THEN items
    ELSE path_dict(IF truthy(Head(files).relativePath)
                   THEN dict_put(items, Head(files).relativePath, Head(files).fileID)
                   ELSE items,
                   Tail(files))

\* a variant of the listing that names no table
available_tables_none(tables) == <<>>

\* [t[0] for t in cursor.fetchall()] of SELECT name FROM sqlite_master WHERE type='table'
available_tables(tables) == [i \in 1..Len(tables) |-> tables[i].name]

NoError == [type |-> "none", text |-> "", tables |-> <<>>]

\* raise FileNotFoundError(f"Manifest.db not found at {manifest_path}")
manifest_not_found == [type |-> "FileNotFoundError", text |-> "Manifest.db not found at", tables |-> <<>>]

\* the Exception of line 81, wrapped by the handler of lines 94-95
no_suitable_table(tables) ==
    [type |-> "Exception",
     text |-> "Unexpected error in get_file_paths: No suitable table found in Manifest.db. Available tables:",
     tables |-> available_tables(tables)]

\* sub in s
has_substring(s, sub) ==
    \E i \in 1..(Len(s) - Len(sub) + 1) : SubSeq(s, i, i + Len(sub) - 1) = sub

sms_db == << "s", "m", "s", ".", "d", "b" >>
addressbook_sqlitedb ==
    << "a", "d", "d", "r", "e", "s", "s", "b", "o", "o", "k", ".",
       "s", "q", "l", "i", "t", "e", "d", "b" >>

\* a variant of the test without lower()
is_relevant_case_sensitive(relative_path) ==
    has_substring(relative_path, sms_db) \/ has_substring(relative_path, addressbook_sqlitedb)

\* 'sms.db' in relative_path.lower() or 'addressbook.sqlitedb' in relative_path.lower()
is_relevant(relative_path) ==
    has_substring(lower(relative_path), sms_db)
        \/ has_substring(lower(relative_path), addressbook_sqlitedb)

\* os.path.join(backup_folder, file_id[:2], file_id), relative to backup_folder
source_of(file_id) ==
    [dir |-> SubSeq(file_id, 1, IF Len(file_id) < 2 THEN Len(file_id) ELSE 2), file |-> file_id]

\* os.path.basename(relative_path): the destination, relative to output_dir
basename(relative_path) == SubSeq(relative_path, last_slash(relative_path) + 1, Len(relative_path))

\* a variant of the loop body that passes over an entry whose source is missing
copy_step_skip_missing(item, backup, out, copied, read) ==
    IF is_relevant(item.key) /\ source_of(item.value) \in backup
    THEN [raised |-> FALSE,
          out |-> [d \in DOMAIN out \cup {basename(item.key)} |->
                      IF d = basename(item.key) THEN item.value ELSE out[d]],
          copied |-> Append(copied, basename(item.key)),
          read |-> read \cup {source_of(item.value)}]
    ELSE [raised |-> FALSE, out |-> out, copied |-> copied, read |-> read]

\* the body of the loop of copy_relevant_files for one item (src/script.py:100-104):
\* shutil.copy2 raises FileNotFoundError when the source does not exist
copy_step(item, backup, out, copied, read) ==
    IF is_relevant(item.key)
    THEN LET source == source_of(item.value)
             destination == basename(item.key)
         IN  IF source \in backup
             THEN [raised |-> FALSE,
                   out |-> [d \in DOMAIN out \cup {destination} |->
                               IF d = destination THEN item.value ELSE out[d]],
                   copied |-> Append(copied, destination),
                   read |-> read \cup {source}]
             ELSE [raised |-> TRUE, out |-> out, copied |-> copied, read |-> read]
    ELSE [raised |-> FALSE, out |-> out, copied |-> copied, read |-> read]

(***************************************************************************)
(* analyze_group_chats_basic (src/script.py:171-251).                      *)
(***************************************************************************)
\* the defaultdict's factory (src/script.py:201-209), entered under its key
default_chat(key) ==
    [key |-> key, chat_id |-> Null, chat_identifier |-> None, display_name |-> None,
     participants |-> {}, total_messages |-> 0, first_message |-> Null, last_message |-> Null]

has_chat(chats, key) == \E i \in 1..Len(chats) : chats[i].key = key

\* date < first_message, date > last_message: comparing None with an int
\* raises TypeError
compare_raises(date, kept) == kept # Null /\ date = Null

\* a variant of the row update that counts only the rows that have a handle
chat_updated_handles_only(chat, row) ==
    LET named == IF chat.chat_id = Null
                 THEN [chat EXCEPT !.chat_id = <<row.chat_id>>,
                                   !.chat_identifier = row.chat_identifier,
                                   !.display_name = row.display_name]
                 ELSE chat
    IN  [named EXCEPT
            !.participants = @ \cup {row.participant_id},
            !.total_messages = IF row.participant_id = None THEN @ ELSE @ + 1,
            !.first_message = IF @ = Null \/ row.date[1] < @[1] THEN row.date ELSE @,
            !.last_message = IF @ = Null \/ row.date[1] > @[1] THEN row.date ELSE @]

\* the body of the loop over all_data for one row, on the entry of its chat
\* (src/script.py:212-226), when no comparison raises
chat_updated(chat, row) ==
    LET named == IF chat.chat_id = Null
                 THEN [chat EXCEPT !.chat_id = <<row.chat_id>>,
                                   !.chat_identifier = row.chat_identifier,
                                   !.display_name = row.display_name]
                 ELSE chat
    IN  [named EXCEPT
            !.participants = @ \cup {row.participant_id},
            !.total_messages = @ + 1,
            !.first_message = IF @ = Null \/ row.date[1] < @[1] THEN row.date ELSE @,
            !.last_message = IF @ = Null \/ row.date[1] > @[1] THEN row.date ELSE @]

\* one iteration of the loop over all_data: group_chats[chat_id] inserts a
\* missing key at the end
basic_step(chats, row) ==
    LET touched == IF has_chat(chats, row.chat_id) THEN chats
                   ELSE Append(chats, default_chat(row.chat_id))
        k == CHOOSE i \in 1..Len(touched) : touched[i].key = row.chat_id
    IN  IF compare_raises(row.date, touched[k].first_message)
           \/ compare_raises(row.date, touched[k].last_message)
        THEN [chats |-> touched, raised |-> TRUE]
        ELSE [chats |-> [touched EXCEPT ![k] = chat_updated(touched[k], row)], raised |-> FALSE]

GroupChat == << "G", "r", "o", "u", "p", " ", "C", "h", "a", "t", " " >>

\* chat['display_name'] if chat['display_name'] else f"Group Chat {chat['chat_identifier']}"
chat_name_of(chat) ==
    IF truthy(chat.display_name) THEN chat.display_name
    ELSE GroupChat \o fstr(chat.chat_identifier)

\* the name appended for one participant (src/script.py:236-239)
matched_name(participant, contact_lookup) ==
    LET normalized_participant == normalize_phone_number(participant)
        full_name == IF normalized_participant \in DOMAIN contact_lookup
                     THEN contact_lookup[normalized_participant].name
                     ELSE participant
        cleaned == clean_contact_name(full_name)
    IN  IF cleaned # <<>> THEN cleaned ELSE participant

\* the participants the loop over the set appends: those that are truthy
named_participants(participants) == {q \in participants : truthy(q)}

\* the dict appended for one chat, its participants taken in the given order
formatted_chat(chat, order, contact_lookup) ==
    [chat_id |-> chat.chat_id,
     chat_identifier |-> chat.chat_identifier,
     chat_name |-> chat_name_of(chat),
     participants |-> [i \in 1..Len(order) |-> matched_name(order[i], contact_lookup)],
     total_messages |-> chat.total_messages,
     first_message |-> format_date(chat.first_message),
     last_message |-> format_date(chat.last_message)]

\* the orders in which a set can be iterated
orders_of(set) ==
    {order \in [1..Cardinality(set) -> set] :
        \A i, j \in 1..Cardinality(set) : order[i] = order[j] => i = j}

\* sorted(..., key=total_messages, reverse=True): stable
RECURSIVE insert_by_messages(_, _)
insert_by_messages(sorted, chat) ==
    IF sorted = <<>> THEN <<chat>>
    ELSE IF Head(sorted).total_messages >= chat.total_messages
         THEN <<Head(sorted)>> \o insert_by_messages(Tail(sorted), chat)
         ELSE <<chat>> \o sorted

RECURSIVE sorted_by_messages_desc(_)
sorted_by_messages_desc(list) ==
    IF list = <<>> THEN <<>>
    ELSE insert_by_messages(sorted_by_messages_desc(SubSeq(list, 1, Len(list) - 1)),
                            list[Len(list)])

(***************************************************************************)
(* Each stage at rest: the state of a stage a specification does not run.  *)
(***************************************************************************)
\* the normalizer at rest
NormIdle ==
    /\ phone = None
    /\ normalized = None
    /\ renormalized = None
    /\ npc = "idle"

\* get_contacts at rest
ContactsIdle ==
    /\ contacts = <<>>
    /\ contact_dict = EmptyDict
    /\ ci = 0

\* the analysis run at rest
PipeIdle ==
    /\ conversations = <<>>
    /\ all_conversations = <<>>
    /\ conv_pc = "idle"
    /\ gi = 0
    /\ contact_data = <<>>
    /\ si = 0
    /\ stored = {}

\* the name cleaning at rest
CleanIdle ==
    /\ name_pieces = <<>>
    /\ display_name = None
    /\ returned_name = None
    /\ saved_name = None

\* the extraction at rest
ExtractIdle ==
    /\ manifest_exists = FALSE
    /\ manifest_tables = <<>>
    /\ backup_files = {}
    /\ conn_open = FALSE
    /\ found_table = NoTable
    /\ ti = 0
    /\ file_paths = <<>>
    /\ extract_pc = "idle"
    /\ error = NoError
    /\ fi = 0
    /\ copied_files = <<>>
    /\ output_files = EmptyDict
    /\ files_read = {}

\* analyze_group_chats_basic at rest
BasicIdle ==
    /\ all_data = <<>>
    /\ group_chats = <<>>
    /\ bdi = 0
    /\ formatted_group_chats = <<>>
    /\ fci = 0
    /\ basic_pc = "idle"

\* analyze_single_group_chat at rest
ChatIdle ==
    /\ messages = <<>>
    /\ participant_stats = <<>>
    /\ message_to_sender = EmptyDict
    /\ chat_pc = "idle"
    /\ mi = 0
    /\ participant_details = <<>>

(***************************************************************************)
(* get_contacts run row by row on every sequence of at most MaxContacts    *)
(* rows of ContactRowSet: two spellings of one phone number, one email,    *)
(* with no avatar (NULL), an empty avatar and a non-empty avatar.          *)
(***************************************************************************)
MaxContacts == 3

ContactRowSet ==
    [first : {<< "A", "l" >>, << "B", "o" >>},
     last : {None},
     value : {<< "5", "-", "5" >>, << "5", "5" >>, << "A", "@", "b" >>},
     image_data : {None, <<>>, << "img" >>}]

ContactsInit ==
    /\ contacts \in UNION {[1..n -> ContactRowSet] : n \in 0..MaxContacts}
    /\ contact_dict = EmptyDict
    /\ ci = 0
    /\ NormIdle
    /\ ChatIdle
    /\ PipeIdle
    /\ CleanIdle
    /\ ExtractIdle
    /\ BasicIdle

\* for row_id, first, last, value, image_data in contacts: ...
ContactRow ==
    /\ ci < Len(contacts)
    /\ contact_dict' = contact_step(contact_dict, contacts[ci + 1])
    /\ ci' = ci + 1
    /\ UNCHANGED <<contacts, normVars, chatVars, pipeVars, cleanVars, extractVars, basicVars>>

ContactsNext == ContactRow

SpecContacts == ContactsInit /\ [][ContactsNext]_vars

(***************************************************************************)
(* The chats analysed: every sequence of at most MaxMsgs rows of           *)
(* MessageRowSet.  Senders: the user, one handle, a message without        *)
(* handle.  GUIDs: two that are equal once cleaned, and a third.           *)
(* Reactions: none; code 0; a heart on g1; a heart on a GUID of no         *)
(* message; a code outside TAPBACK_MAPPING.                                *)
(***************************************************************************)
MaxMsgs == 2

G1 == << "g", "1" >>
G2 == << "g", "2" >>
PrefixedG1 == << "a", "/", "g", "1" >>
ReactsToG1 == << "p", ":", "0", "/", "g", "1" >>
ReactsToNothing == << "p", ":", "0", "/", "g", "9" >>

Handle55 == << "5", "5" >>

Reactions ==
    { [associated_message_type |-> Null, associated_message_guid |-> None],
      [associated_message_type |-> <<0>>, associated_message_guid |-> ReactsToG1],
      [associated_message_type |-> <<2000>>, associated_message_guid |-> ReactsToG1],
      [associated_message_type |-> <<2000>>, associated_message_guid |-> ReactsToNothing],
      [associated_message_type |-> <<7>>, associated_message_guid |-> PrefixedG1] }

Senders ==
    { [is_from_me |-> 1, sender_id |-> None],
      [is_from_me |-> 0, sender_id |-> Handle55],
      [is_from_me |-> 0, sender_id |-> None] }

MessageRowSet ==
    { [guid |-> g, is_from_me |-> s.is_from_me, sender_id |-> s.sender_id,
       associated_message_guid |-> r.associated_message_guid,
       associated_message_type |-> r.associated_message_type] :
        g \in {G1, PrefixedG1, G2}, s \in Senders, r \in Reactions }

\* the contact lookup handed to the analyzer
ChatContacts ==
    get_contacts(<< [first |-> << "A", "l" >>, last |-> None,
                     value |-> << "5", "-", "5" >>, image_data |-> None] >>)

\* m.guid identifies a message of the store: no two rows carry the same raw
\* GUID (two raw GUIDs may still be equal once cleaned)
DistinctGuids(msgs) ==
    \A i, j \in 1..Len(msgs) : msgs[i].guid = msgs[j].guid => i = j

Chats ==
    {msgs \in UNION {[1..n -> MessageRowSet] : n \in 0..MaxMsgs} : DistinctGuids(msgs)}

ChatInit ==
    /\ messages \in Chats
    /\ participant_stats = <<>>
    /\ message_to_sender = EmptyDict
    /\ chat_pc = "pass1"
    /\ mi = 0
    /\ participant_details = <<>>
    /\ NormIdle
    /\ ContactsIdle
    /\ PipeIdle
    /\ CleanIdle
    /\ ExtractIdle
    /\ BasicIdle

\* first pass, one row
Pass1Row ==
    /\ chat_pc = "pass1"
    /\ mi < Len(messages)
    /\ LET r == pass1_step(participant_stats, message_to_sender, messages[mi + 1])
       IN  /\ participant_stats' = r.stats
           /\ message_to_sender' = r.map
    /\ mi' = mi + 1
    /\ UNCHANGED <<messages, chat_pc, participant_details, normVars, contactVars, pipeVars, cleanVars,
                   extractVars, basicVars>>

\* the first loop is exhausted: the second starts over the same rows
Pass1Done ==
    /\ chat_pc = "pass1"
    /\ mi = Len(messages)
    /\ chat_pc' = "pass2"
    /\ mi' = 0
    /\ UNCHANGED <<messages, participant_stats, message_to_sender, participant_details,
                   normVars, contactVars, pipeVars, cleanVars, extractVars, basicVars>>

\* second pass, one row
Pass2Row ==
    /\ chat_pc = "pass2"
    /\ mi < Len(messages)
    /\ LET r == pass2_step(participant_stats, message_to_sender, messages, mi + 1)
       IN  /\ participant_stats' = r.stats
           /\ chat_pc' = IF r.raised THEN "raised" ELSE "pass2"
    /\ mi' = mi + 1
    /\ UNCHANGED <<messages, message_to_sender, participant_details, normVars, contactVars, pipeVars,
                   cleanVars, extractVars, basicVars>>

\* the second loop is exhausted: the details are compiled and returned
Compile ==
    /\ chat_pc = "pass2"
    /\ mi = Len(messages)
    /\ participant_details' = compile_details(participant_stats, ChatContacts)
    /\ chat_pc' = "done"
    /\ UNCHANGED <<messages, participant_stats, message_to_sender, mi, normVars, contactVars,
                   pipeVars, cleanVars, extractVars, basicVars>>

ChatNext == Pass1Row \/ Pass1Done \/ Pass2Row \/ Compile

SpecChat == ChatInit /\ [][ChatNext]_vars

(***************************************************************************)
(* One run of on_analyze_click (src/app.py:912-952): get_all_conversations *)
(* on the rows of analyze_imessage_data, then save_results_to_local_db on  *)
(* the returned list.  The rows: at most MaxConvs handles, one row per     *)
(* handle.id, ordered by sent + received descending as the query orders    *)
(* them.                                                                   *)
(***************************************************************************)
MaxConvs == 2

JaneDoe == << "J", "a", "n", "e", " ", "D", "o", "e" >>
Jane10 == << "5", "5", "5", "1", "2", "3", "4", "5", "6", "7" >>
Jane11 == << "+", "1", "5", "5", "5", "1", "2", "3", "4", "5", "6", "7" >>
\* Jane Doe's number as a handle recorded with a two-digit country prefix
Jane12 == << "4", "4", "5", "5", "5", "1", "2", "3", "4", "5", "6", "7" >>
Li77 == << "7", "7" >>
Email == << "e", "@", "x" >>
\* the number of a contact that has neither a first nor a last name
Co88 == << "8", "8" >>

\* the contact store of the run: Jane Doe, and a contact without first name
PipeContactRows ==
    << [first |-> << "J", "a", "n", "e" >>, last |-> << "D", "o", "e" >>,
        value |-> << "+", "1", " ", "(", "5", "5", "5", ")", " ",
                     "1", "2", "3", "-", "4", "5", "6", "7" >>,
        image_data |-> None],
       [first |-> None, last |-> << "L", "i" >>, value |-> Li77, image_data |-> None],
       [first |-> << "E", "v" >>, last |-> None, value |-> << "E", "@", "x" >>,
        image_data |-> None],
       [first |-> None, last |-> None, value |-> Co88, image_data |-> None] >>

PipeContacts == get_contacts(PipeContactRows)

\* analyze_image_attachments: the image statistics per handle.id
PipeImageStats ==
    [h \in {Jane10, Li77} |->
        IF h = Jane10 THEN [sent |-> 1, received |-> 0, total_size |-> 100]
        ELSE [sent |-> 0, received |-> 2, total_size |-> 50]]

\* message dates, in seconds since 2001-01-01
Jan1 == 0
Jan1Noon == 43200
Jan5 == 345600
Feb1 == 2678400

\* MIN(message.date), MAX(message.date) of a handle
DateRanges ==
    { <<Null, Null>>,
      << <<Jan1>>, <<Jan1>> >>,
      << <<Jan1>>, <<Jan5>> >>,
      << <<Jan1Noon>>, <<Jan5>> >>,
      << <<Jan5>>, <<Feb1>> >>,
      << <<Feb1>>, <<Feb1>> >> }

MessageCounts == { <<3, 2>>, <<1, 5>> }

ConversationRowSet ==
    { [identifier |-> h, sent_count |-> c[1], received_count |-> c[2],
       first_message |-> d[1], last_message |-> d[2]] :
        h \in {Jane10, Jane11, Jane12, Li77, Email, Co88}, c \in MessageCounts, d \in DateRanges }

\* GROUP BY handle.id ORDER BY (sent_count + received_count) DESC
QueryResult(rows) ==
    /\ \A i, j \in 1..Len(rows) : rows[i].identifier = rows[j].identifier => i = j
    /\ \A i \in 1..(Len(rows) - 1) :
          rows[i].sent_count + rows[i].received_count
              >= rows[i + 1].sent_count + rows[i + 1].received_count

\* the rows left in the conversations table by an earlier run
StaleRows ==
    { [contact_name |-> << "O", "l", "d" >>, sent_count |-> 9, received_count |-> 9,
       first_message_date |-> format_date(<<Jan1>>),
       last_message_date |-> format_date(<<Jan1>>),
       avg_messages_per_day |-> <<18, 1>>,
       images_sent |-> 0, images_received |-> 0, total_image_size |-> 0] }

PipeInit ==
    /\ conversations \in
          {rows \in UNION {[1..n -> ConversationRowSet] : n \in 0..MaxConvs} : QueryResult(rows)}
    /\ all_conversations = <<>>
    /\ conv_pc = "compile"
    /\ gi = 0
    /\ contact_data = <<>>
    /\ si = 0
    /\ stored = StaleRows
    /\ NormIdle
    /\ ContactsIdle
    /\ ChatIdle
    /\ CleanIdle
    /\ ExtractIdle
    /\ BasicIdle

\* a variant of the loop that passes over a row that raises and goes on
ConvRow_skip_raising_row ==
    /\ conv_pc = "compile"
    /\ gi < Len(conversations)
    /\ all_conversations' =
          IF row_raises(conversations[gi + 1]) THEN all_conversations
          ELSE Append(all_conversations,
                      summary_of(conversations[gi + 1], PipeContacts, PipeImageStats))
    /\ gi' = gi + 1
    /\ UNCHANGED <<conversations, conv_pc, contact_data, si, stored, normVars, contactVars,
                   chatVars, cleanVars, extractVars, basicVars>>

\* get_all_conversations, one row: the summary is appended, or the row
\* raises and on_analyze_click reports the error: nothing is saved
ConvRow ==
    /\ conv_pc = "compile"
    /\ gi < Len(conversations)
    /\ IF row_raises(conversations[gi + 1])
       THEN /\ conv_pc' = "raised"
            /\ UNCHANGED all_conversations
       ELSE /\ all_conversations' =
                  Append(all_conversations,
                         summary_of(conversations[gi + 1], PipeContacts, PipeImageStats))
            /\ UNCHANGED conv_pc
    /\ gi' = gi + 1
    /\ UNCHANGED <<conversations, contact_data, si, stored, normVars, contactVars, chatVars, cleanVars,
                   extractVars, basicVars>>

\* get_all_conversations returns the list sorted by total, descending
ConvReturn ==
    /\ conv_pc = "compile"
    /\ gi = Len(conversations)
    /\ all_conversations' = sorted_by_total_desc(all_conversations)
    /\ conv_pc' = "returned"
    /\ UNCHANGED <<conversations, gi, contact_data, si, stored, normVars, contactVars, chatVars,
                   cleanVars, extractVars, basicVars>>

\* save_results_to_local_db, one iteration of the merge loop
SaveRow ==
    /\ conv_pc = "returned"
    /\ si < Len(all_conversations)
    /\ LET r == merge_step(all_conversations, contact_data, si + 1)
       IN  /\ all_conversations' = r.list
           /\ contact_data' = r.data
    /\ si' = si + 1
    /\ UNCHANGED <<conversations, conv_pc, gi, stored, normVars, contactVars, chatVars, cleanVars,
                   extractVars, basicVars>>

\* save_results_to_local_db, the end: the DELETE of the old rows and one
\* REPLACE INTO per entry of contact_data are committed together
SaveCommit ==
    /\ conv_pc = "returned"
    /\ si = Len(all_conversations)
    /\ stored' = {stored_row(contact_data[k].name, all_conversations[contact_data[k].ref]) :
                     k \in 1..Len(contact_data)}
    /\ conv_pc' = "saved"
    /\ UNCHANGED <<conversations, all_conversations, gi, contact_data, si,
                   normVars, contactVars, chatVars, cleanVars, extractVars, basicVars>>

PipeNext == ConvRow \/ ConvReturn \/ SaveRow \/ SaveCommit

SpecPipeline == PipeInit /\ [][PipeNext]_vars

(***************************************************************************)
(* The name cleaning run on display names: every sequence of at most       *)
(* MaxPieces pieces joined by one space each.  A piece is a token or       *)
(* empty, so that leading, trailing and doubled spaces occur.  The tokens: *)
(* three spellings of the word none, two tokens that contain it, and two   *)
(* plain names.                                                            *)
(***************************************************************************)
MaxPieces == 3

NoneSpellings == { << "N", "o", "n", "e" >>, << "n", "o", "n", "e" >>, << "N", "O", "N", "E" >> }

NamePieces ==
    NoneSpellings \cup
    { <<>>,
      << "N", "o", "n", "e", "s" >>,
      << "x", "n", "o", "n", "e" >>,
      << "J", "o", "h", "n" >>,
      << "S", "m", "i", "t", "h" >> }

CleanInit ==
    /\ name_pieces \in UNION {[1..n -> NamePieces] : n \in 0..MaxPieces}
    /\ display_name = join(name_pieces)
    /\ returned_name = None
    /\ saved_name = None
    /\ NormIdle
    /\ ContactsIdle
    /\ ChatIdle
    /\ PipeIdle
    /\ ExtractIdle
    /\ BasicIdle

\* clean_contact_name(contact_info['name']) (src/script.py:238, 337)
CleanContactName ==
    /\ returned_name = None
    /\ returned_name' = clean_contact_name(display_name)
    /\ UNCHANGED <<name_pieces, display_name, saved_name, normVars, contactVars, chatVars, pipeVars,
                   extractVars, basicVars>>

\* the three lines of the save that clean conv['contact_name']
CleanForSave ==
    /\ saved_name = None
    /\ saved_name' = cleaned_or_unknown(display_name)
    /\ UNCHANGED <<name_pieces, display_name, returned_name, normVars, contactVars, chatVars, pipeVars,
                   extractVars, basicVars>>

CleanNext == CleanContactName \/ CleanForSave

SpecClean == CleanInit /\ [][CleanNext]_vars

(***************************************************************************)
(* get_file_paths on a manifest index, then copy_relevant_files on the     *)
(* returned dict, as main and the analysis run call them                   *)
(* (src/script.py:495-498).  The index is a well-formed database.  SQLite  *)
(* table names are unique up to case, so at most one of Files / files and  *)
(* at most one of File / file exists.  sqlite_master lists the tables in   *)
(* creation order: Properties and Domains, then File or file, then Files   *)
(* or files.                                                               *)
(* The table Files or files holds at most MaxFiles rows of FileRowSet; the *)
(* table File or file holds at most one.                                   *)
(***************************************************************************)
MaxFiles == 2

Id_ab12 == << "a", "b", "1", "2" >>
Id_cd34 == << "c", "d", "3", "4" >>
Id_ef56 == << "e", "f", "5", "6" >>
Id_gh78 == << "g", "h", "7", "8" >>
Id_ij90 == << "i", "j", "9", "0" >>

SmsPath == << "a", "/", "s", "m", "s", ".", "d", "b" >>
AddressBookPath ==
    << "b", "/", "A", "d", "d", "r", "e", "s", "s", "B", "o", "o", "k", ".",
       "s", "q", "l", "i", "t", "e", "d", "b" >>
NotesPath == << "n", ".", "t", "x", "t" >>

\* the message store, the contact store, the message store's path in
\* another domain, a file of no interest, a record without path
FileRowSet ==
    { [fileID |-> Id_ab12, relativePath |-> SmsPath, domain |-> HomeDomain],
      [fileID |-> Id_cd34, relativePath |-> AddressBookPath, domain |-> HomeDomain],
      [fileID |-> Id_ef56, relativePath |-> SmsPath, domain |-> "MediaDomain"],
      [fileID |-> Id_gh78, relativePath |-> NotesPath, domain |-> HomeDomain],
      [fileID |-> Id_ij90, relativePath |-> <<>>, domain |-> HomeDomain] }

FileRows == UNION {[1..n -> FileRowSet] : n \in 0..MaxFiles}
OneFileRow == {<<>>} \cup {<<row>> : row \in FileRowSet}

\* zero or one table of the given names, with the given possible contents
TableChoice(names, contents) ==
    {<<>>} \cup {<< [name |-> n, rows |-> rows] >> : n \in names, rows \in contents}

ManifestIndexes ==
    { properties \o singular \o plural :
        properties \in {<<>>, << [name |-> "Properties", rows |-> <<>>] >>,
                        << [name |-> "Properties", rows |-> <<>>],
                           [name |-> "Domains", rows |-> <<>>] >>},
        singular \in TableChoice({"File", "file"}, OneFileRow),
        plural \in TableChoice({"Files", "files"}, FileRows) }

\* the content files of the other domain and of no interest are present;
\* those of the message store and of the contact store may be missing
BackupContents ==
    { {source_of(Id_ef56), source_of(Id_gh78)} \cup present :
        present \in SUBSET {source_of(Id_ab12), source_of(Id_cd34)} }

ExtractInit ==
    /\ manifest_exists \in BOOLEAN
    /\ manifest_tables \in (IF manifest_exists THEN ManifestIndexes ELSE {<<>>})
    /\ backup_files \in BackupContents
    /\ conn_open = FALSE
    /\ found_table = NoTable
    /\ ti = 0
    /\ file_paths = <<>>
    /\ extract_pc = "start"
    /\ error = NoError
    /\ fi = 0
    /\ copied_files = <<>>
    /\ output_files = EmptyDict
    /\ files_read = {}
    /\ NormIdle
    /\ ContactsIdle
    /\ ChatIdle
    /\ PipeIdle
    /\ CleanIdle
    /\ BasicIdle

\* if not os.path.exists(manifest_path): raise FileNotFoundError
ManifestMissing ==
    /\ extract_pc = "start"
    /\ ~manifest_exists
    /\ error' = manifest_not_found
    /\ extract_pc' = "raised"
    /\ UNCHANGED <<manifest_exists, manifest_tables, backup_files, conn_open, found_table, ti,
                   file_paths, fi, copied_files, output_files, files_read,
                   normVars, contactVars, chatVars, pipeVars, cleanVars, basicVars>>

\* conn = sqlite3.connect(manifest_path)
Connect ==
    /\ extract_pc = "start"
    /\ manifest_exists
    /\ conn_open' = TRUE
    /\ extract_pc' = "probe"
    /\ UNCHANGED <<manifest_exists, manifest_tables, backup_files, found_table, ti,
                   file_paths, error, fi, copied_files, output_files, files_read,
                   normVars, contactVars, chatVars, pipeVars, cleanVars, basicVars>>

\* one iteration of for table in table_names: the first name that exists
\* ends the loop
Probe ==
    /\ extract_pc = "probe"
    /\ ti < Len(table_names)
    /\ ti' = ti + 1
    /\ IF table_exists(manifest_tables, table_names[ti + 1])
       THEN /\ found_table' = table_names[ti + 1]
            /\ extract_pc' = "select"
       ELSE /\ UNCHANGED found_table
            /\ extract_pc' = IF ti + 1 = Len(table_names) THEN "no_table" ELSE "probe"
    /\ UNCHANGED <<manifest_exists, manifest_tables, backup_files, conn_open,
                   file_paths, error, fi, copied_files, output_files, files_read,
                   normVars, contactVars, chatVars, pipeVars, cleanVars, basicVars>>

\* if not found_table: the tables are listed and the Exception is raised,
\* caught by except Exception and raised again; conn.close() is not reached
NoSuitableTable ==
    /\ extract_pc = "no_table"
    /\ error' = no_suitable_table(manifest_tables)
    /\ extract_pc' = "raised"
    /\ UNCHANGED <<manifest_exists, manifest_tables, backup_files, conn_open, found_table, ti,
                   file_paths, fi, copied_files, output_files, files_read,
                   normVars, contactVars, chatVars, pipeVars, cleanVars, basicVars>>

\* the SELECT on the found table, conn.close(), and the dict returned
SelectFiles ==
    /\ extract_pc = "select"
    /\ file_paths' = path_dict(<<>>, home_rows(rows_of(manifest_tables, found_table)))
    /\ conn_open' = FALSE
    /\ extract_pc' = "returned"
    /\ UNCHANGED <<manifest_exists, manifest_tables, backup_files, found_table, ti,
                   error, fi, copied_files, output_files, files_read,
                   normVars, contactVars, chatVars, pipeVars, cleanVars, basicVars>>

\* copy_relevant_files, one iteration of for relative_path, file_id in file_paths.items()
CopyItem ==
    /\ extract_pc = "returned"
    /\ fi < Len(file_paths)
    /\ LET r == copy_step(file_paths[fi + 1], backup_files, output_files, copied_files, files_read)
       IN  /\ output_files' = r.out
           /\ copied_files' = r.copied
           /\ files_read' = r.read
           /\ extract_pc' = IF r.raised THEN "copy_raised" ELSE "returned"
           /\ error' = IF r.raised
                       THEN [type |-> "FileNotFoundError", text |-> "No such file or directory",
                             tables |-> <<>>]
                       ELSE error
    /\ fi' = fi + 1
    /\ UNCHANGED <<manifest_exists, manifest_tables, backup_files, conn_open, found_table, ti,
                   file_paths, normVars, contactVars, chatVars, pipeVars, cleanVars, basicVars>>

\* return copied_files
CopyReturn ==
    /\ extract_pc = "returned"
    /\ fi = Len(file_paths)
    /\ extract_pc' = "copied"
    /\ UNCHANGED <<manifest_exists, manifest_tables, backup_files, conn_open, found_table, ti,
                   file_paths, error, fi, copied_files, output_files, files_read,
                   normVars, contactVars, chatVars, pipeVars, cleanVars, basicVars>>

ExtractNext ==
    ManifestMissing \/ Connect \/ Probe \/ NoSuitableTable \/ SelectFiles \/ CopyItem \/ CopyReturn

SpecExtract == ExtractInit /\ [][ExtractNext]_vars

(***************************************************************************)
(* get_all_conversations called on its own, on rows in any order: at most  *)
(* MaxConvs rows of ConversationRowSet, one per handle.id.                 *)
(***************************************************************************)
OnePerHandle(rows) ==
    \A i, j \in 1..Len(rows) : rows[i].identifier = rows[j].identifier => i = j

ConversationsInit ==
    /\ conversations \in
          {rows \in UNION {[1..n -> ConversationRowSet] : n \in 0..MaxConvs} : OnePerHandle(rows)}
    /\ all_conversations = <<>>
    /\ conv_pc = "compile"
    /\ gi = 0
    /\ contact_data = <<>>
    /\ si = 0
    /\ stored = {}
    /\ NormIdle
    /\ ContactsIdle
    /\ ChatIdle
    /\ CleanIdle
    /\ ExtractIdle
    /\ BasicIdle

ConversationsNext == ConvRow \/ ConvReturn

SpecConversations == ConversationsInit /\ [][ConversationsNext]_vars

(***************************************************************************)
(* analyze_group_chats_basic on the rows of two group chats: at most       *)
(* MaxChatRows rows, ordered by chat, then by date with NULL dates first,  *)
(* as the query orders them.  Chat 1 has no display name, chat 2 has one.  *)
(* A message has a NULL handle when it is from the user.  The set of       *)
(* participants of a chat is iterated in any order.                        *)
(***************************************************************************)
MaxChatRows == 3

Handle77 == << "7", "7" >>

ChatRowSet ==
    { [chat_id |-> c,
       chat_identifier |-> IF c = 1 THEN << "c", "h", "a", "t", "1" >>
                           ELSE << "c", "h", "a", "t", "2" >>,
       display_name |-> IF c = 1 THEN None ELSE << "F", "a", "m" >>,
       date |-> d,
       participant_id |-> h] :
        c \in {1, 2}, d \in {Null, <<Jan1>>, <<Jan5>>}, h \in {None, Handle55, Handle77} }

\* NULL sorts before every date
date_before_or_equal(a, b) == a = Null \/ (b # Null /\ a[1] <= b[1])

\* ORDER BY c.ROWID, m.date
OrderedByChatAndDate(rows) ==
    \A i \in 1..(Len(rows) - 1) :
        \/ rows[i].chat_id < rows[i + 1].chat_id
        \/ /\ rows[i].chat_id = rows[i + 1].chat_id
           /\ date_before_or_equal(rows[i].date, rows[i + 1].date)

BasicInit ==
    /\ all_data \in {rows \in UNION {[1..n -> ChatRowSet] : n \in 0..MaxChatRows} :
                        OrderedByChatAndDate(rows)}
    /\ group_chats = <<>>
    /\ bdi = 0
    /\ formatted_group_chats = <<>>
    /\ fci = 0
    /\ basic_pc = "rows"
    /\ NormIdle
    /\ ContactsIdle
    /\ ChatIdle
    /\ PipeIdle
    /\ CleanIdle
    /\ ExtractIdle

\* for row in all_data: one row
BasicRow ==
    /\ basic_pc = "rows"
    /\ bdi < Len(all_data)
    /\ LET r == basic_step(group_chats, all_data[bdi + 1])
       IN  /\ group_chats' = r.chats
           /\ basic_pc' = IF r.raised THEN "raised" ELSE "rows"
    /\ bdi' = bdi + 1
    /\ UNCHANGED <<all_data, formatted_group_chats, fci,
                   normVars, contactVars, chatVars, pipeVars, cleanVars, extractVars>>

\* the first loop is exhausted
BasicRowsDone ==
    /\ basic_pc = "rows"
    /\ bdi = Len(all_data)
    /\ basic_pc' = "format"
    /\ UNCHANGED <<all_data, group_chats, bdi, formatted_group_chats, fci,
                   normVars, contactVars, chatVars, pipeVars, cleanVars, extractVars>>

\* for chat in group_chats.values(): one chat
BasicFormat ==
    /\ basic_pc = "format"
    /\ fci < Len(group_chats)
    /\ \E order \in orders_of(named_participants(group_chats[fci + 1].participants)) :
          formatted_group_chats' =
              Append(formatted_group_chats, formatted_chat(group_chats[fci + 1], order, ChatContacts))
    /\ fci' = fci + 1
    /\ UNCHANGED <<all_data, group_chats, bdi, basic_pc,
                   normVars, contactVars, chatVars, pipeVars, cleanVars, extractVars>>

\* return sorted(formatted_group_chats, ...)
BasicReturn ==
    /\ basic_pc = "format"
    /\ fci = Len(group_chats)
    /\ formatted_group_chats' = sorted_by_messages_desc(formatted_group_chats)
    /\ basic_pc' = "returned"
    /\ UNCHANGED <<all_data, group_chats, bdi, fci,
                   normVars, contactVars, chatVars, pipeVars, cleanVars, extractVars>>

BasicNext == BasicRow \/ BasicRowsDone \/ BasicFormat \/ BasicReturn

SpecBasic == BasicInit /\ [][BasicNext]_vars

(***************************************************************************)
(* The identifiers the normalizer is run on: None, the identifiers the     *)
(* documentation names, and every string made of a short prefix over       *)
(* NormChars followed by a run of the digit "5" (so that digit strings of  *)
(* 10, 11 and 12 digits, with and without a leading "1", all occur).       *)
(***************************************************************************)
MaxPrefix == 2
MaxPad == 11

NormChars == {"1", "5", "-", "@", "A", "a"}

Pad(k) == [i \in 1..k |-> "5"]

Prefixes == UNION {[1..n -> NormChars] : n \in 0..MaxPrefix}

DocumentedIdentifiers ==
    { << "+", "1", " ", "(", "5", "5", "5", ")", " ", "1", "2", "3", "-", "4", "5", "6", "7" >>,
      << "5", "5", "5", "-", "1", "2", "3", "-", "4", "5", "6", "7" >>,
      << "U", "s", "e", "r", "@", "E", "x", "a", "m", "p", "l", "e", ".", "C", "O", "M" >> }

NormInputs ==
    {None} \cup DocumentedIdentifiers
           \cup {p \o Pad(k) : p \in Prefixes, k \in 0..MaxPad}

NormInit ==
    /\ phone \in NormInputs
    /\ normalized = None
    /\ renormalized = None
    /\ npc = "input"
    /\ ContactsIdle
    /\ ChatIdle
    /\ PipeIdle
    /\ CleanIdle
    /\ ExtractIdle
    /\ BasicIdle

\* normalized = normalize_phone_number(phone)
Normalize ==
    /\ npc = "input"
    /\ normalized' = normalize_phone_number(phone)
    /\ npc' = "once"
    /\ UNCHANGED <<phone, renormalized, contactVars, chatVars, pipeVars, cleanVars, extractVars,
                   basicVars>>

\* renormalized = normalize_phone_number(normalized): the output is fed back
Renormalize ==
    /\ npc = "once"
    /\ renormalized' = normalize_phone_number(normalized)
    /\ npc' = "twice"
    /\ UNCHANGED <<phone, normalized, contactVars, chatVars, pipeVars, cleanVars, extractVars, basicVars>>

NormNext == Normalize \/ Renormalize

SpecNorm == NormInit /\ [][NormNext]_vars

(***************************************************************************)
(* Claims about the normalizer.                                            *)
(***************************************************************************)
\* the digits of s in their original order, one character at a time
RECURSIVE digit_string(_)
digit_string(s) ==
    IF s = <<>> THEN <<>>
    ELSE (IF Head(s) \in Digits THEN <<Head(s)>> ELSE <<>>) \o digit_string(Tail(s))

Ten == << "5", "5", "5", "1", "2", "3", "4", "5", "6", "7" >>

\* C1: normalization is idempotent: for every input, None included,
\* normalizing the normalized form gives the normalized form again.
C1_Idempotent == npc = "twice" => renormalized = normalized

\* C2: an identifier without '@' normalizes to its digits in their original
\* order, the leading digit dropped exactly when 11 digits remain and the
\* first is '1'; "+1 (555) 123-4567" and "555-123-4567" both give "5551234567".
C2_PhoneDigits ==
    (npc # "input" /\ phone # None /\ ~contains(phone, "@")) =>
        LET d == digit_string(phone)
        IN  /\ normalized = IF Len(d) = 11 /\ d[1] = "1" THEN SubSeq(d, 2, 11) ELSE d
            /\ (phone \in DocumentedIdentifiers => normalized = Ten)

\* an identifier with punctuation and 11 digits led by '1' has been normalized
C2_Witness ==
    /\ npc = "once"
    /\ phone # None
    /\ ~contains(phone, "@")
    /\ Len(digit_string(phone)) = 11
    /\ Len(phone) > 11
    /\ Len(normalized) = 10

\* C3: an identifier that contains '@' normalizes to itself lower-cased.
C3_EmailLowercased ==
    (npc # "input" /\ phone # None /\ contains(phone, "@")) => normalized = lower(phone)

(***************************************************************************)
(* Claims about get_contacts.                                              *)
(***************************************************************************)
\* the rows among the first n that are registered under key k
RowsOfKey(k, n) == {j \in 1..n : contact_key(contacts[j].value) = k}

Least(S) == CHOOSE j \in S : \A i \in S : j <= i

EntryOfRow(j) ==
    [name |-> full_name_of(contacts[j].first, contacts[j].last),
     image_data |-> contacts[j].image_data]

\* C10: after any number of rows, the entry under each key is the first row
\* of that key with non-empty avatar data if there is one, else the first
\* row of that key; so no later row replaces an entry that has an avatar.
C10_AvatarElseFirst ==
    /\ DOMAIN contact_dict = {contact_key(contacts[j].value) : j \in 1..ci}
    /\ \A k \in DOMAIN contact_dict :
          LET rows == RowsOfKey(k, ci)
              withAvatar == {j \in rows : truthy(contacts[j].image_data)}
          IN  contact_dict[k] =
                 EntryOfRow(IF withAvatar # {} THEN Least(withAvatar) ELSE Least(rows))

\* three rows of one key were scanned: one without avatar, then two with
\* avatars; the stored entry is the second row, not the third
C10_Witness ==
    /\ ci = 3
    /\ \E k \in DOMAIN contact_dict :
          /\ RowsOfKey(k, 3) = {1, 2, 3}
          /\ ~truthy(contacts[1].image_data)
          /\ truthy(contacts[2].image_data)
          /\ truthy(contacts[3].image_data)
          /\ contacts[2].first # contacts[3].first
          /\ contact_dict[k] = EntryOfRow(2)

(***************************************************************************)
(* Claims about analyze_single_group_chat.                                 *)
(***************************************************************************)
IsReaction(row) == truthy_int(row.associated_message_type)

SenderTags == {sender_of(row) : row \in MessageRowSet}
ReactionTypes == {row.associated_message_type[1] : row \in {r \in MessageRowSet : IsReaction(r)}}

\* what the returned list reports for a sender tag: the entry at the
\* position the sender has in participant_stats
ReportOf(stats, details, s) ==
    details[CHOOSE i \in 1..Len(stats) : stats[i].sender = s]

Reported(stats, s) == has_participant(stats, s)

CountIn(counts, t) ==
    IF tapback_label(t) \in DOMAIN counts THEN counts[tapback_label(t)] ELSE 0

SentReported(s, t) ==
    IF Reported(participant_stats, s)
    THEN CountIn(ReportOf(participant_stats, participant_details, s).tapbacks_sent, t)
    ELSE 0

ReceivedReported(s, t) ==
    IF Reported(participant_stats, s)
    THEN CountIn(ReportOf(participant_stats, participant_details, s).tapbacks_received, t)
    ELSE 0

\* message b is a reaction of type t and its cleaned associated GUID is the
\* cleaned GUID of message a
ReactsTo(b, a, t) ==
    /\ IsReaction(messages[b])
    /\ messages[b].associated_message_type[1] = t
    /\ clean_guid(messages[b].associated_message_guid) = clean_guid(messages[a].guid)

Rows == 1..Len(messages)

\* the last message whose cleaned GUID is the one reaction b refers to, 0 if none
LastTarget(b) ==
    LET targets == {a \in Rows :
                       clean_guid(messages[a].guid) = clean_guid(messages[b].associated_message_guid)}
    IN  IF targets = {} THEN 0 ELSE CHOOSE a \in targets : \A x \in targets : x <= a

Dangling(b) == IsReaction(messages[b]) /\ LastTarget(b) = 0

SentBy(s, t) ==
    Cardinality({b \in Rows : /\ IsReaction(messages[b])
                              /\ messages[b].associated_message_type[1] = t
                              /\ sender_of(messages[b]) = s})

\* C4 as claimed: every reaction b of type t counts once for b's sender as
\* sent and once as received for the sender of every message a whose
\* cleaned GUID it refers to.
C4_EveryTargetCredited ==
    chat_pc = "done" =>
        \A s \in SenderTags, t \in ReactionTypes :
            /\ SentReported(s, t) = SentBy(s, t)
            /\ ReceivedReported(s, t) =
                  Cardinality({b \in Rows :
                      \E a \in Rows : ReactsTo(b, a, t) /\ sender_of(messages[a]) = s})

\* C4 amended: every reaction b of type t counts once for b's sender as
\* sent and once as received for the sender of the last message whose
\* cleaned GUID it refers to (the message itself when cleaned GUIDs are
\* distinct); a single reacting pair gives 1 and 1.
C4_LastTargetCredited ==
    chat_pc = "done" =>
        \A s \in SenderTags, t \in ReactionTypes :
            /\ SentReported(s, t) = SentBy(s, t)
            /\ ReceivedReported(s, t) =
                  Cardinality({b \in Rows :
                      /\ LastTarget(b) # 0
                      /\ ReactsTo(b, LastTarget(b), t)
                      /\ sender_of(messages[LastTarget(b)]) = s})

\* message A of one sender followed by a heart of another sender on it
C4_Witness ==
    /\ chat_pc = "done"
    /\ Len(messages) = 2
    /\ ReactsTo(2, 1, 2000)
    /\ ~IsReaction(messages[1])
    /\ clean_guid(messages[2].guid) # clean_guid(messages[1].guid)
    /\ sender_of(messages[1]) # sender_of(messages[2])
    /\ ReceivedReported(sender_of(messages[1]), 2000) = 1
    /\ SentReported(sender_of(messages[2]), 2000) = 1
    /\ ReceivedReported(sender_of(messages[2]), 2000) = 0

RECURSIVE SumOver(_, _)
SumOver(f, S) ==
    IF S = {} THEN 0
    ELSE LET x == CHOOSE y \in S : TRUE IN f[x] + SumOver(f, S \ {x})

TotalReceivedReported ==
    SumOver([i \in 1..Len(participant_details) |->
                participant_details[i].total_tapbacks_received],
            1..Len(participant_details))

TotalMessagesReported ==
    SumOver([i \in 1..Len(participant_details) |-> participant_details[i].message_count],
            1..Len(participant_details))

\* C5: a reaction whose cleaned associated GUID matches no message never
\* makes the analysis raise; it counts as sent for the reacting participant,
\* as received for nobody, and every message of the chat is still counted.
C5_DanglingReaction ==
    /\ chat_pc # "raised"
    /\ chat_pc = "done" =>
          /\ \A s \in SenderTags, t \in ReactionTypes : SentReported(s, t) = SentBy(s, t)
          /\ TotalReceivedReported =
                Cardinality({b \in Rows : IsReaction(messages[b]) /\ ~Dangling(b)})
          /\ TotalMessagesReported = Len(messages)

\* a dangling heart followed by another message: both counted, nothing received
C5_Witness ==
    /\ chat_pc = "done"
    /\ Len(messages) = 2
    /\ Dangling(1)
    /\ ~IsReaction(messages[2])
    /\ SentReported(sender_of(messages[1]), 2000) = 1
    /\ TotalReceivedReported = 0
    /\ TotalMessagesReported = 2

DistinctCleanedGuids(msgs) ==
    \A i, j \in 1..Len(msgs) : clean_guid(msgs[i].guid) = clean_guid(msgs[j].guid) => i = j

\* the report per sender tag, the order of the list left out
ReportBySender(stats, details) ==
    [s \in {stats[i].sender : i \in 1..Len(stats)} |-> ReportOf(stats, details, s)]

Permuted(msgs, p) == [i \in 1..Len(msgs) |-> msgs[p[i]]]

\* C6: with GUIDs distinct after cleaning, the counters reported per
\* participant are the same for every order of the same messages.
C6_OrderIndependent ==
    (chat_pc = "done" /\ DistinctCleanedGuids(messages)) =>
        \A p \in Permutations(1..Len(messages)) :
            LET other == analyze_single_group_chat(Permuted(messages, p), ChatContacts)
            IN  ReportBySender(other.stats, other.details)
                    = ReportBySender(participant_stats, participant_details)

\* a reaction processed before the message it reacts to, and credited to it
C6_Witness ==
    /\ chat_pc = "done"
    /\ Len(messages) = 2
    /\ DistinctCleanedGuids(messages)
    /\ ReactsTo(1, 2, 2000)
    /\ sender_of(messages[1]) # sender_of(messages[2])
    /\ ReceivedReported(sender_of(messages[2]), 2000) = 1

(***************************************************************************)
(* Claims about get_all_conversations and save_results_to_local_db.        *)
(***************************************************************************)
ConvRows == 1..Len(conversations)

\* the display name get_all_conversations resolves for a row, cleaned as the save cleans it
CleanedNameOfRow(i) ==
    cleaned_or_unknown(
        dict_get(PipeContacts, normalize_phone_number(conversations[i].identifier),
                 UnknownContact).name)

ImagesOfRow(i) == dict_get(PipeImageStats, conversations[i].identifier, NoImages)

MinOf(S) == CHOOSE x \in S : \A y \in S : x <= y
MaxOf(S) == CHOOSE x \in S : \A y \in S : x >= y

\* C7: a stored record holds the sums of the counts of all records whose
\* cleaned contact names collide, the chronologically earliest of their
\* first dates and the chronologically latest of their last dates.
C7_MergeSumsAndDateRange ==
    conv_pc = "saved" =>
        \A rec \in stored :
            LET group == {i \in ConvRows : CleanedNameOfRow(i) = rec.contact_name}
            IN  /\ group # {}
                /\ rec.sent_count = SumOver([i \in group |-> conversations[i].sent_count], group)
                /\ rec.received_count =
                      SumOver([i \in group |-> conversations[i].received_count], group)
                /\ rec.images_sent = SumOver([i \in group |-> ImagesOfRow(i).sent], group)
                /\ rec.images_received = SumOver([i \in group |-> ImagesOfRow(i).received], group)
                /\ rec.total_image_size =
                      SumOver([i \in group |-> ImagesOfRow(i).total_size], group)
                /\ rec.first_message_date =
                      format_date(<<MinOf({conversations[i].first_message[1] : i \in group})>>)
                /\ rec.last_message_date =
                      format_date(<<MaxOf({conversations[i].last_message[1] : i \in group})>>)

\* the whole number of days between two instants: the d with
\* d days <= last - first < d + 1 days (the dates of the model lie within a year)
WholeDays(first, last) ==
    CHOOSE d \in 0..366 :
        /\ d * SECONDS_PER_DAY <= last - first
        /\ last - first < (d + 1) * SECONDS_PER_DAY

Max(a, b) == IF a >= b THEN a ELSE b

January1 == format_date(<<Jan1>>)
January5 == format_date(<<Jan5>>)

\* C9: the list get_all_conversations returns holds exactly one summary per
\* handle; for a handle whose normalized identifier is a key of the lookup
\* it carries the contact's display name and the handle's counts; and for
\* 3 outgoing + 2 incoming messages of "5551234567" spanning January 1 to
\* January 5 with contact Jane Doe it is Jane Doe, 3, 2, 1.0 a day.
C9_EndToEnd ==
    (conv_pc = "returned" /\ si = 0) =>
        /\ Len(all_conversations) = Len(conversations)
        /\ \E p \in Permutations(ConvRows) :
              \A i \in ConvRows :
                  LET row == conversations[p[i]]
                      conv == all_conversations[i]
                      key == normalize_phone_number(row.identifier)
                  IN  /\ key \in DOMAIN PipeContacts =>
                            /\ conv.contact_name = PipeContacts[key].name
                            /\ conv.sent_count = row.sent_count
                            /\ conv.received_count = row.received_count
                      /\ ( /\ row.identifier = Jane10
                           /\ row.sent_count = 3
                           /\ row.received_count = 2
                           /\ format_date(row.first_message) = January1
                           /\ format_date(row.last_message) = January5 )
                         => /\ conv.contact_name = JaneDoe
                            /\ conv.sent_count = 3
                            /\ conv.received_count = 2
                            /\ conv.avg_messages_per_day[1] = conv.avg_messages_per_day[2]

(***************************************************************************)
(* Claims about the contact lookup of get_all_conversations.               *)
(***************************************************************************)
\* the last ten characters of a digit string of at least ten digits
last_ten(digits) == SubSeq(digits, Len(digits) - 9, Len(digits))

SameLastTen(a, b) == Len(a) >= 10 /\ Len(b) >= 10 /\ last_ten(a) = last_ten(b)

PhoneContactRows == {j \in 1..Len(PipeContactRows) : ~contains(PipeContactRows[j].value, "@")}

\* C11: a handle whose normalized identifier has the same last ten digits as
\* the normalized number of a phone contact (both of at least ten digits) is
\* given that contact's display name by get_all_conversations.
C11_SuffixResolves ==
    conv_pc = "compile" =>
        \A i \in 1..Len(all_conversations) : \A j \in PhoneContactRows :
            SameLastTen(normalize_phone_number(conversations[i].identifier),
                        normalize_phone_number(PipeContactRows[j].value))
                => all_conversations[i].contact_name
                       = full_name_of(PipeContactRows[j].first, PipeContactRows[j].last)

(***************************************************************************)
(* Claims about the name cleaning.                                         *)
(***************************************************************************)
\* a piece that is a token and is none of the spellings of the word none
KeptPiece(piece) == piece # <<>> /\ piece \notin NoneSpellings

KeptPieces == SelectSeq(name_pieces, KeptPiece)

\* the tokens, one space between two neighbours
RECURSIVE Spaced(_)
Spaced(tokens) ==
    IF tokens = <<>> THEN <<>>
    ELSE Head(tokens) \o (IF Tail(tokens) = <<>> THEN <<>> ELSE <<Space>> \o Spaced(Tail(tokens)))

JohnNoneSmith == << << "J", "o", "h", "n" >>, << "N", "o", "n", "e" >>, << "S", "m", "i", "t", "h" >> >>
JohnSmith == << "J", "o", "h", "n", " ", "S", "m", "i", "t", "h" >>

\* C12: when at least one token of the display name is not the word none
\* (in any case), the cleaned name, from clean_contact_name and from the
\* save alike, is the tokens that are not the word none, in their order,
\* one space apart; a token that only contains the word is kept.
C12_KeepsOtherTokens ==
    KeptPieces # <<>> =>
        /\ returned_name # None => returned_name = Spaced(KeptPieces)
        /\ saved_name # None => saved_name = Spaced(KeptPieces)

\* "John None Smith" has been cleaned to "John Smith" by both
C12_Witness ==
    /\ name_pieces = JohnNoneSmith
    /\ returned_name = JohnSmith
    /\ saved_name = JohnSmith

\* C13: when every token of the display name is the word none, or there is
\* no token, the cleaned name is "Unknown", from clean_contact_name and
\* from the save alike.
C13_AllRemovedIsUnknown ==
    KeptPieces = <<>> =>
        /\ returned_name # None => returned_name = Unknown
        /\ saved_name # None => saved_name = Unknown

(***************************************************************************)
(* Claims about get_file_paths and copy_relevant_files.                    *)
(***************************************************************************)
TablesPresent == {manifest_tables[i].name : i \in 1..Len(manifest_tables)}

KnownTablesPresent == {i \in 1..Len(table_names) : table_names[i] \in TablesPresent}

\* the rows of the first of Files, files, File, file that is present
FirstKnownTableRows ==
    LET first == CHOOSE i \in KnownTablesPresent : \A j \in KnownTablesPresent : i <= j
    IN  rows_of(manifest_tables, table_names[first])

Returned == extract_pc \in {"returned", "copied", "copy_raised"}

\* C14: every entry of the mapping get_file_paths returns is the logical
\* path and content identifier of a HomeDomain record of the first table
\* present among Files, files, File, file, and every HomeDomain record of
\* that table that has a path is a key.
C14_HomeDomainOnly ==
    Returned =>
        /\ KnownTablesPresent # {}
        /\ \A k \in 1..Len(file_paths) :
              \E j \in 1..Len(FirstKnownTableRows) :
                  /\ FirstKnownTableRows[j].domain = "HomeDomain"
                  /\ FirstKnownTableRows[j].relativePath = file_paths[k].key
                  /\ FirstKnownTableRows[j].fileID = file_paths[k].value
        /\ \A j \in 1..Len(FirstKnownTableRows) :
              (FirstKnownTableRows[j].domain = "HomeDomain"
                  /\ FirstKnownTableRows[j].relativePath # <<>>)
                  => \E k \in 1..Len(file_paths) :
                         file_paths[k].key = FirstKnownTableRows[j].relativePath

\* a mapping has been returned from files, which holds a record of another
\* domain, while File holds a HomeDomain record and comes first in sqlite_master
C14_Witness ==
    /\ Returned
    /\ file_paths # <<>>
    /\ found_table = "files"
    /\ \E i \in 1..Len(manifest_tables) :
          /\ manifest_tables[i].name = "File"
          /\ \E j \in 1..Len(manifest_tables[i].rows) :
                 manifest_tables[i].rows[j].domain = "HomeDomain"
    /\ \E j \in 1..Len(FirstKnownTableRows) : FirstKnownTableRows[j].domain # "HomeDomain"

Finished == extract_pc \notin {"start", "probe", "no_table", "select"}

\* C15: once get_file_paths is over, an absent index has raised
\* FileNotFoundError, and an index with none of the four table names has
\* raised an error of another type that lists exactly the tables present;
\* in both cases nothing was returned.
C15_ErrorsNotMappings ==
    Finished =>
        /\ ~manifest_exists =>
              /\ extract_pc = "raised"
              /\ error.type = "FileNotFoundError"
              /\ file_paths = <<>>
        /\ (manifest_exists /\ KnownTablesPresent = {}) =>
              /\ extract_pc = "raised"
              /\ error.type \notin {"none", "FileNotFoundError"}
              /\ {error.tables[i] : i \in 1..Len(error.tables)} = TablesPresent
              /\ file_paths = <<>>

\* the error of an index that holds two tables, neither of a known name
C15_Witness ==
    /\ extract_pc = "raised"
    /\ manifest_exists
    /\ TablesPresent = {"Properties", "Domains"}
    /\ Len(error.tables) = 2

\* the paths of the inputs that name the message store or the contact
\* store, and the file name each is copied to
RelevantPaths == {SmsPath, AddressBookPath}

DestinationOf(path) ==
    IF path = SmsPath THEN << "s", "m", "s", ".", "d", "b" >>
    ELSE << "A", "d", "d", "r", "e", "s", "s", "B", "o", "o", "k", ".",
            "s", "q", "l", "i", "t", "e", "d", "b" >>

\* <first two characters of contentId>/<contentId>
ContentFile(id) == [dir |-> << id[1], id[2] >>, file |-> id]

RelevantItems(n) == {k \in 1..n : file_paths[k].key \in RelevantPaths}

\* the items the loop has gone through without raising
ItemsDone == IF extract_pc = "copy_raised" THEN fi - 1 ELSE fi

\* C16: copy_relevant_files reads and writes for the entries whose path
\* names the message store or the contact store and for no other: what it
\* has read are the content files <first two characters>/<contentId> of
\* those entries, what it has written are their destinations, each with
\* that content, and the list it returns is those destinations.
C16_CopiesRelevantOnly ==
    /\ files_read = {ContentFile(file_paths[k].value) : k \in RelevantItems(ItemsDone)}
    /\ DOMAIN output_files = {DestinationOf(file_paths[k].key) : k \in RelevantItems(ItemsDone)}
    /\ (extract_pc = "copied") =>
          /\ Cardinality(RelevantItems(Len(file_paths))) = Len(copied_files)
          /\ \A k \in RelevantItems(Len(file_paths)) :
                /\ ContentFile(file_paths[k].value) \in files_read
                /\ output_files[DestinationOf(file_paths[k].key)] = file_paths[k].value
          /\ {copied_files[i] : i \in 1..Len(copied_files)} = DOMAIN output_files

\* the copy has returned: the contact store, found by the lower-cased
\* path, was copied; the file of no interest is present but was not read
C16_Witness ==
    /\ extract_pc = "copied"
    /\ Len(file_paths) = 2
    /\ has_key(file_paths, NotesPath)
    /\ ContentFile(Id_gh78) \in backup_files
    /\ copied_files = << DestinationOf(AddressBookPath) >>

\* C17: copy_relevant_files returns its list only if the content file of
\* every entry naming the message store or the contact store is present;
\* when one is missing the copy raises FileNotFoundError at that entry.
C17_MissingSourceRaises ==
    /\ (extract_pc = "copied") =>
          \A k \in RelevantItems(Len(file_paths)) :
              ContentFile(file_paths[k].value) \in backup_files
    /\ \A k \in RelevantItems(fi) :
          ContentFile(file_paths[k].value) \notin backup_files =>
              /\ extract_pc = "copy_raised"
              /\ k = fi
              /\ error.type = "FileNotFoundError"

\* the copy has raised at its second entry, after copying the first
C17_Witness ==
    /\ extract_pc = "copy_raised"
    /\ fi = 2
    /\ Len(copied_files) = 1

\* C18: when get_file_paths has returned or raised, the connection it
\* opened is closed.
C18_ConnectionClosedOnExit == Finished => ~conn_open

(***************************************************************************)
(* Claims about get_all_conversations on rows in any order.                *)
(***************************************************************************)
RowTotal(row) == row.sent_count + row.received_count

\* C19: in the list get_all_conversations returns, no record has a smaller
\* sent_count + received_count than the record after it.
C19_SortedByTotal ==
    conv_pc = "returned" =>
        /\ Len(all_conversations) = Len(conversations)
        /\ \A i \in 1..(Len(all_conversations) - 1) :
              all_conversations[i].sent_count + all_conversations[i].received_count
                  >= all_conversations[i + 1].sent_count + all_conversations[i + 1].received_count

\* the list has been returned for two rows given in ascending order of total
C19_Witness ==
    /\ conv_pc = "returned"
    /\ Len(conversations) = 2
    /\ RowTotal(conversations[1]) < RowTotal(conversations[2])

\* C20: get_all_conversations never raises, and the summary of a row whose
\* first or last timestamp is null carries "N/A" as that date.
C20_NullTimestampsEmitted ==
    /\ conv_pc # "raised"
    /\ conv_pc = "compile" =>
          \A i \in 1..Len(all_conversations) :
              /\ conversations[i].first_message = Null
                    => all_conversations[i].first_message_date = NotAvailable
              /\ conversations[i].last_message = Null
                    => all_conversations[i].last_message_date = NotAvailable

(***************************************************************************)
(* Claims about the labelled maps and the totals of                        *)
(* analyze_single_group_chat.                                              *)
(***************************************************************************)
Entries == 1..Len(participant_details)

\* the sum of the values of a labelled map
MapTotal(map) == SumOver(map, DOMAIN map)

\* the label the output carries for a raw code: the text of the fixed
\* enumeration, or the synthesized label that prints the code
LabelOf(t) ==
    CASE t = 0 -> <<"No Tapback", -1>>
      [] t = 2000 -> <<"Heart", -1>>
      [] t = 2001 -> <<"Thumbs Up", -1>>
      [] t = 2002 -> <<"Thumbs Down", -1>>
      [] t = 2003 -> <<"Laugh", -1>>
      [] t = 2004 -> <<"!! Exclamation", -1>>
      [] t = 3003 -> <<"Question", -1>>
      [] OTHER -> <<"Unknown (t)", t>>

\* every raw code of the counter is a key of the labelled map, under its
\* own label and with its count, and the map has no other key
KeepsEveryCode(raw, map) ==
    /\ \A t \in DOMAIN raw : LabelOf(t) \in DOMAIN map /\ map[LabelOf(t)] = raw[t]
    /\ Cardinality(DOMAIN map) = Cardinality(DOMAIN raw)

\* C21: in the returned list every raw reaction code of a participant, also
\* one outside TAPBACK_MAPPING, is a key of the labelled map under its own
\* label with its full count, no two codes share a label, and both totals
\* are the sums of the values of the labelled maps.
C21_NoCountDropped ==
    chat_pc = "done" =>
        \A i \in Entries :
            /\ KeepsEveryCode(participant_stats[i].tapbacks_sent, participant_details[i].tapbacks_sent)
            /\ KeepsEveryCode(participant_stats[i].tapbacks_received,
                              participant_details[i].tapbacks_received)
            /\ participant_details[i].total_tapbacks_sent
                  = MapTotal(participant_details[i].tapbacks_sent)
            /\ participant_details[i].total_tapbacks_received
                  = MapTotal(participant_details[i].tapbacks_received)

\* a participant has sent a heart and a reaction of the unlisted code 7,
\* and the code 7 was received by the sender of the message it refers to
C21_Witness ==
    /\ chat_pc = "done"
    /\ \E i \in Entries :
          /\ DOMAIN participant_details[i].tapbacks_sent = {<<"Heart", -1>>, <<"Unknown (t)", 7>>}
          /\ participant_details[i].total_tapbacks_sent = 2
    /\ \E i \in Entries :
          /\ <<"Unknown (t)", 7>> \in DOMAIN participant_details[i].tapbacks_received
          /\ participant_details[i].total_tapbacks_received >= 1

(***************************************************************************)
(* Claims about the order of the two passes.                               *)
(***************************************************************************)
\* the part of a GUID after its last '/', the whole GUID when it has none
AfterLastSlash(guid) ==
    IF \E i \in 1..Len(guid) : guid[i] = "/"
    THEN LET i == CHOOSE k \in 1..Len(guid) :
                      guid[k] = "/" /\ \A j \in (k + 1)..Len(guid) : guid[j] # "/"
         IN  [j \in 1..(Len(guid) - i) |-> guid[i + j]]
    ELSE guid

\* the sender tag of a row: self, the handle identifier, or unknown
TagOf(row) ==
    IF row.is_from_me = 1 THEN << "u", "s", "e", "r" >>
    ELSE IF row.sender_id # None /\ row.sender_id # <<>> THEN row.sender_id
    ELSE << "u", "n", "k", "n", "o", "w", "n" >>

\* the last row whose GUID, cleaned, is that of row a
LastWithGuidOf(a) ==
    CHOOSE b \in Rows :
        /\ AfterLastSlash(messages[b].guid) = AfterLastSlash(messages[a].guid)
        /\ \A c \in Rows :
              AfterLastSlash(messages[c].guid) = AfterLastSlash(messages[a].guid) => c <= b

\* C22 as claimed: throughout pass 2 the map holds the cleaned GUID of
\* every message of the chat, mapped to that message's sender tag, and no
\* step of pass 2 changes the map.
C22_EveryMessageIndexed ==
    /\ [](chat_pc = "pass2" =>
            \A a \in Rows :
                /\ AfterLastSlash(messages[a].guid) \in DOMAIN message_to_sender
                /\ message_to_sender[AfterLastSlash(messages[a].guid)] = TagOf(messages[a]))
    /\ [][chat_pc = "pass2" => message_to_sender' = message_to_sender]_vars

\* C22 amended: throughout pass 2 the map holds the cleaned GUID of every
\* message of the chat and nothing else, mapped to the sender tag of the
\* last message that has this cleaned GUID (the message itself when the
\* cleaned GUIDs are distinct), and no step of pass 2 changes the map.
C22_LastMessageIndexed ==
    /\ [](chat_pc = "pass2" =>
            /\ DOMAIN message_to_sender = {AfterLastSlash(messages[a].guid) : a \in Rows}
            /\ \A a \in Rows :
                  message_to_sender[AfterLastSlash(messages[a].guid)]
                      = TagOf(messages[LastWithGuidOf(a)]))
    /\ [][chat_pc = "pass2" => message_to_sender' = message_to_sender]_vars

\* pass 2 has looked up a reaction that refers, by a prefixed GUID, to a
\* message that comes after it
C22_Witness ==
    /\ chat_pc = "pass2"
    /\ mi = 1
    /\ Len(messages) = 2
    /\ IsReaction(messages[1])
    /\ messages[2].guid = PrefixedG1
    /\ AfterLastSlash(messages[1].associated_message_guid) = AfterLastSlash(messages[2].guid)
    /\ \E i \in 1..Len(participant_stats) :
          /\ participant_stats[i].sender = TagOf(messages[2])
          /\ DOMAIN participant_stats[i].tapbacks_received # {}

(***************************************************************************)
(* Claims about the sums over the participants.                            *)
(***************************************************************************)
\* the raw codes of the rows that carry one, 0 included
TypeCodes == {row.associated_message_type[1] :
                 row \in {r \in MessageRowSet : r.associated_message_type # <<>>}}

ValueAt(map, t) == IF LabelOf(t) \in DOMAIN map THEN map[LabelOf(t)] ELSE 0

SentOfType(t) ==
    SumOver([i \in Entries |-> ValueAt(participant_details[i].tapbacks_sent, t)], Entries)

ReceivedOfType(t) ==
    SumOver([i \in Entries |-> ValueAt(participant_details[i].tapbacks_received, t)], Entries)

TotalSent == SumOver([i \in Entries |-> participant_details[i].total_tapbacks_sent], Entries)

TotalReceived == SumOver([i \in Entries |-> participant_details[i].total_tapbacks_received], Entries)

\* row b carries a non-zero type code and its associated GUID, cleaned, is
\* the cleaned GUID of no row
DanglingRow(b) ==
    /\ messages[b].associated_message_type \notin {<<>>, <<0>>}
    /\ \A a \in Rows :
          AfterLastSlash(messages[a].guid) # AfterLastSlash(messages[b].associated_message_guid)

\* C25: summed over the participants of the returned list, the reactions
\* received are at most the reactions sent, for every type and in total,
\* and the totals are equal exactly when no reaction of the chat is dangling.
C25_ReceivedAtMostSent ==
    chat_pc = "done" =>
        /\ \A t \in TypeCodes : ReceivedOfType(t) <= SentOfType(t)
        /\ TotalReceived <= TotalSent
        /\ (TotalReceived = TotalSent) <=> (\A b \in Rows : ~DanglingRow(b))

\* two reactions, one of them dangling: two sent, one received
C25_Witness ==
    /\ chat_pc = "done"
    /\ Len(messages) = 2
    /\ DanglingRow(2)
    /\ TotalSent = 2
    /\ TotalReceived = 1

\* C26: the message counts of the returned list add up to the number of
\* rows of the chat, reactions included, and every entry counts at least
\* one message.
C26_MessageCounts ==
    chat_pc = "done" =>
        /\ SumOver([i \in Entries |-> participant_details[i].message_count], Entries)
              = Len(messages)
        /\ \A i \in Entries : participant_details[i].message_count >= 1

\* a message and a reaction to it by another participant: two entries, one
\* message each, the reaction counted as a message of its sender
C26_Witness ==
    /\ chat_pc = "done"
    /\ Len(messages) = 2
    /\ Len(participant_details) = 2
    /\ IsReaction(messages[2])
    /\ ~DanglingRow(2)
    /\ participant_details[1].message_count = 1
    /\ participant_details[2].message_count = 1
    /\ participant_details[1].total_tapbacks_received = 1

\* C30: the counters of the returned list count the rows whose type code
\* is neither null nor 0 and no other row, and "No Tapback" is a key of no
\* labelled map.
C30_ZeroIsNoReaction ==
    chat_pc = "done" =>
        /\ TotalSent = Cardinality({b \in Rows : messages[b].associated_message_type \notin {<<>>, <<0>>}})
        /\ \A i \in Entries :
              /\ <<"No Tapback", -1>> \notin DOMAIN participant_details[i].tapbacks_sent
              /\ <<"No Tapback", -1>> \notin DOMAIN participant_details[i].tapbacks_received

\* a row with type code 0 that refers to a message of the chat, and a row
\* with a null type code: no counter has moved
C30_Witness ==
    /\ chat_pc = "done"
    /\ Len(messages) = 2
    /\ messages[1].associated_message_type = <<>>
    /\ messages[2].associated_message_type = <<0>>
    /\ AfterLastSlash(messages[2].associated_message_guid) = AfterLastSlash(messages[1].guid)
    /\ TotalSent = 0
    /\ TotalReceived = 0

(***************************************************************************)
(* Claims about analyze_group_chats_basic.                                 *)
(***************************************************************************)
ChatIds == {all_data[i].chat_id : i \in 1..Len(all_data)}

RowsOfChat(c) == {i \in 1..Len(all_data) : all_data[i].chat_id = c}

HandlesOfChat(c) == {all_data[i].participant_id : i \in RowsOfChat(c)} \ {None}

DatesOfChat(c) == {all_data[i].date[1] : i \in {j \in RowsOfChat(c) : all_data[j].date # <<>>}}

\* the name a handle of the inputs resolves to: the contact Al for 55, the
\* handle itself for 77
NameOfHandle(h) == IF h = << "5", "5" >> THEN << "A", "l" >> ELSE h

DateOrNotAvailable(dates, pick) ==
    IF dates = {} THEN << "N", "/", "A" >> ELSE format_date(<<pick>>)

\* C23: the returned list has one entry per chat; its total_messages is
\* the number of rows of the chat, its participants are the distinct
\* non-null handles of those rows, one name each, its first and last
\* message are the least and the greatest date of those rows, and the
\* list is in non-increasing order of total_messages.
C23_BasicListing ==
    basic_pc = "returned" =>
        /\ Len(formatted_group_chats) = Cardinality(ChatIds)
        /\ \A c \in ChatIds :
              \E k \in 1..Len(formatted_group_chats) :
                  LET chat == formatted_group_chats[k]
                  IN  /\ chat.chat_id = <<c>>
                      /\ chat.total_messages = Cardinality(RowsOfChat(c))
                      /\ Len(chat.participants) = Cardinality(HandlesOfChat(c))
                      /\ {chat.participants[i] : i \in 1..Len(chat.participants)}
                            = {NameOfHandle(h) : h \in HandlesOfChat(c)}
                      /\ chat.first_message
                            = DateOrNotAvailable(DatesOfChat(c), MinOf(DatesOfChat(c)))
                      /\ chat.last_message
                            = DateOrNotAvailable(DatesOfChat(c), MaxOf(DatesOfChat(c)))
        /\ \A k \in 1..(Len(formatted_group_chats) - 1) :
              formatted_group_chats[k].total_messages
                  >= formatted_group_chats[k + 1].total_messages

\* chat 1 with one message of the user, chat 2 with two messages of two
\* handles on different days: chat 2 is listed first
C23_Witness ==
    /\ basic_pc = "returned"
    /\ Len(all_data) = 3
    /\ all_data[1].chat_id = 1
    /\ all_data[1].participant_id = None
    /\ Len(formatted_group_chats) = 2
    /\ formatted_group_chats[1].chat_id = <<2>>
    /\ formatted_group_chats[1].total_messages = 2
    /\ Len(formatted_group_chats[1].participants) = 2
    /\ formatted_group_chats[1].first_message # formatted_group_chats[1].last_message
    /\ formatted_group_chats[2].participants = <<>>

(***************************************************************************)
(* Claims about a failed run, and about the summaries the save stores.     *)
(***************************************************************************)
HasNullDate(row) == row.first_message = <<>> \/ row.last_message = <<>>

\* C24: when a row makes get_all_conversations raise, no list is returned
\* and the save does not run: the store holds what it held before the run.
\* A list is returned, and saved, only when every row was computed.
C24_NoPartialResult ==
    /\ conv_pc = "raised" =>
          /\ stored = StaleRows
          /\ contact_data = <<>>
          /\ si = 0
    /\ conv_pc \in {"returned", "saved"} =>
          /\ \A i \in ConvRows : ~HasNullDate(conversations[i])
          /\ Len(all_conversations) = Len(conversations)
    /\ (\E i \in 1..gi : HasNullDate(conversations[i])) => conv_pc = "raised"

\* the second row has raised after the summary of the first was computed
C24_Witness ==
    /\ conv_pc = "raised"
    /\ gi = 2
    /\ Len(all_conversations) = 1
    /\ stored = StaleRows

\* the day number of a stored date string, among the days of the inputs
DayNumbers == {Jan1 \div SECONDS_PER_DAY, Jan5 \div SECONDS_PER_DAY, Feb1 \div SECONDS_PER_DAY}

DayOfDate(date_string) ==
    CHOOSE n \in DayNumbers : format_date(<<n * SECONDS_PER_DAY>>) = date_string

\* C27: every stored summary has avg_messages_per_day equal to its stored
\* sent_count + received_count divided by max(1, days between its stored
\* first and last dates + 1).
C27_StoredAverageConsistent ==
    conv_pc = "saved" =>
        \A rec \in stored :
            /\ rec.avg_messages_per_day[2] > 0
            /\ rec.avg_messages_per_day[1]
                    * Max(1, DayOfDate(rec.last_message_date) - DayOfDate(rec.first_message_date) + 1)
                  = (rec.sent_count + rec.received_count) * rec.avg_messages_per_day[2]

\* the list get_all_conversations returned, computed again from the rows
ListReturned ==
    sorted_by_total_desc([i \in ConvRows |->
                             summary_of(conversations[i], PipeContacts, PipeImageStats)])

\* C28: after the save the records of the caller's list have the counts
\* they had when the list was handed to it, and the store holds exactly
\* one row per distinct cleaned contact name and no row of an earlier run.
C28_InputUnchanged ==
    conv_pc = "saved" =>
        /\ \A i \in 1..Len(all_conversations) :
              /\ all_conversations[i].sent_count = ListReturned[i].sent_count
              /\ all_conversations[i].received_count = ListReturned[i].received_count
        /\ {rec.contact_name : rec \in stored} = {CleanedNameOfRow(i) : i \in ConvRows}
        /\ Cardinality(stored) = Cardinality({CleanedNameOfRow(i) : i \in ConvRows})

\* the rows whose identifier, normalized, is no key of the contact lookup
Unmatched == {i \in ConvRows : conversations[i].identifier \notin {Jane10, Jane11, Li77, Co88}}

\* the rows of a contact whose name has no token other than "None"
Nameless == {i \in ConvRows : conversations[i].identifier = Co88}

\* the display name of a row of the inputs, cleaned
NameOfRow(i) ==
    IF conversations[i].identifier \in {Jane10, Jane11} THEN JaneDoe
    ELSE IF conversations[i].identifier = Li77 THEN << "L", "i" >>
    ELSE << "U", "n", "k", "n", "o", "w", "n" >>

SentOf(S) == SumOver([i \in ConvRows |-> conversations[i].sent_count], S)
ReceivedOf(S) == SumOver([i \in ConvRows |-> conversations[i].received_count], S)

\* the part shared by both readings of C29: get_all_conversations names
\* every unmatched identifier "Unknown", the save stores one summary per
\* distinct cleaned name, and at most one of them is named "Unknown"
UnknownNamedAndStoredOnce ==
    /\ conv_pc = "compile" =>
          \A i \in 1..Len(all_conversations) :
              i \in Unmatched => all_conversations[i].contact_name = << "U", "n", "k", "n", "o", "w", "n" >>
    /\ conv_pc = "saved" =>
          /\ Cardinality(stored) = Cardinality({NameOfRow(i) : i \in ConvRows})
          /\ \A rec, other \in stored : other.contact_name = rec.contact_name => other = rec

\* the save has stored an "Unknown" summary with the counts of the rows S
UnknownSummaryOf(S) ==
    \E rec \in stored :
        /\ rec.contact_name = << "U", "n", "k", "n", "o", "w", "n" >>
        /\ rec.sent_count = SentOf(S)
        /\ rec.received_count = ReceivedOf(S)

====
